---------------------------- MODULE Spec2Model ----------------------------
(***************************************************************************)
(* gpio-cdev: userspace access to the Linux GPIO character device.         *)
(*                                                                         *)
(* The model holds one opened chip (InnerChip shared through an Arc), the  *)
(* values derived from it (Chip, Line, Lines), the handles that own a      *)
(* kernel-granted descriptor (LineHandle, MultiLineHandle, LineEventHandle,*)
(* AsyncLineEventHandle) and the kernel side of the ABI the crate talks to *)
(* (descriptor table, line grants, line levels, per-descriptor event       *)
(* queue).  Every public operation of the crate is one action; the kernel  *)
(* serialises ioctls, so an operation of one client is atomic with respect *)
(* to the operations of the others and any interleaving of clients is an   *)
(* interleaving of these actions.                                          *)
(***************************************************************************)
EXTENDS Integers, Sequences, FiniteSets, Bags, TLC

(***************************************************************************)
(* Bounds of the model.                                                    *)
(***************************************************************************)
\* line count the kernel reports for the chip of the main specification
NumLines == 2

\* lines of the chip in the specification of values
ValLines == 3
\* longest offset list handed to get_lines in the main specification
MaxSetLen == 2
\* live Chip / Line / Lines values at a time
MaxObjs == 2
\* live handles at a time
MaxHandles == 2
\* capacity of the kernel's per-descriptor event queue
MaxQueue == 2
\* chunks a descriptor delivers in its lifetime
MaxEvents == 2

\* live LineIterator values at a time
MaxIters == 2

\* records a source delivers in the ownership specification
OwnEvents == 1

\* longest consumer string handed to a request, in bytes
MaxLabel == 40

(***************************************************************************)
(* Program constants.                                                      *)
(***************************************************************************)
\* ffi::GPIOHANDLES_MAX, Lines::MAX_LINES
GPIOHANDLES_MAX == 64
\* size_of::<ffi::gpioevent_data>(): u64 timestamp + u32 id, padded to 16
EVENT_SIZE == 16
\* descriptor number of the chip device file (0, 1, 2 are the standard streams)
ChipFd == 3

\* length of consumer_label in gpiohandle_request and gpioevent_request
LABEL_LEN == 32

VARIABLES
    chipLines,   \* InnerChip.lines
    chipFile,    \* InnerChip.file: "open" | "closed"
    arc,         \* strong count of Arc<Box<InnerChip>>
    objs,        \* live Chip / Line / Lines values: a bag of values
    handles,     \* live handles, by slot
    kfd,         \* kernel: descriptor table of the granted descriptors
    holder,      \* kernel: line offset -> descriptor holding the line, 0 if free
    level,       \* kernel: line offset -> logic level
    gone,        \* kernel: the chip's device was removed
    badClose,    \* a close() was issued on a descriptor that was not open
    ret          \* what the most recent operation returned to its caller

vars ==
    <<chipLines, chipFile, arc, objs, handles, kfd, holder, level, gone, badClose, ret>>

(***************************************************************************)
(* errors.rs: the error values.  One record shape for all kinds:           *)
(*   kind  the ErrorKind variant ("Msg" and "Nix" are what bail! builds    *)
(*         from a string and from a nix::Error)                            *)
(*   tag   the IoctlKind of an Ioctl error                                 *)
(*   errno the OS error of an Ioctl, Nix or Event error                    *)
(*   args  the numbers the error carries                                   *)
(*   context  the message chain_err attaches at the call site              *)
(***************************************************************************)
NoErr == [kind |-> "none", tag |-> "", errno |-> "", args |-> <<>>, context |-> ""]

ioctl_err(kind, cause) ==
    [kind |-> "Ioctl", tag |-> kind, errno |-> cause, args |-> <<>>, context |-> ""]

invalid_err(n_lines, n_values) ==
    [kind |-> "InvalidRequest", tag |-> "", errno |-> "", args |-> <<n_lines, n_values>>,
     context |-> ""]

offset_err(offset) ==
    [kind |-> "Offset", tag |-> "", errno |-> "", args |-> <<offset>>, context |-> ""]

event_err(err) ==
    [kind |-> "Event", tag |-> "", errno |-> err, args |-> <<>>, context |-> ""]

\* bail!("...")
bail_msg(msg) == [kind |-> "Msg", tag |-> msg, errno |-> "", args |-> <<>>, context |-> ""]

\* bail!(nix::Error::Sys(errno)), and `?` on a nix::Error
bail_nix(errno) ==
    [kind |-> "Nix", tag |-> "", errno |-> errno, args |-> <<>>, context |-> ""]

\* .chain_err(|| msg): the error with the call site's message attached
chain_err(e, msg) == [e EXCEPT !.context = msg]

\* Results.  opt is "some" for a value or an error, "none" for the None of
\* an Option and "pending" for Poll::Pending
Ok(v) == [ok |-> TRUE, val |-> v, err |-> NoErr, opt |-> "some"]

Err(e) == [ok |-> FALSE, val |-> <<>>, err |-> e, opt |-> "some"]

None == [ok |-> TRUE, val |-> <<>>, err |-> NoErr, opt |-> "none"]

Pending == [ok |-> TRUE, val |-> <<>>, err |-> NoErr, opt |-> "pending"]

(***************************************************************************)
(* Construction of Line and Lines values.                                  *)
(***************************************************************************)
\* a Line::new that takes any offset
Line_new_unchecked(lines, offset) == Ok(offset)

\* Line::new: the Line's offset, or the error
Line_new(lines, offset) ==
    IF offset >= lines
    THEN Err(bail_msg("Offset out of range"))
    ELSE Ok(offset)

\* the first failing Line::new of offsets.iter().map(..).collect()
FirstBad(lines, offsets) ==
    LET bad == {i \in 1..Len(offsets) : ~Line_new(lines, offsets[i]).ok}
    IN  CHOOSE i \in bad : \A j \in bad : i <= j

\* a Lines::new that refuses a set of GPIOHANDLES_MAX offsets
Lines_new_below_max(lines, offsets) ==
    IF Len(offsets) = 0 \/ Len(offsets) >= GPIOHANDLES_MAX
    THEN Err(bail_nix("EINVAL"))
    ELSE IF \E i \in 1..Len(offsets) : ~Line_new(lines, offsets[i]).ok
         THEN Err(Line_new(lines, offsets[FirstBad(lines, offsets)]).err)
         ELSE Ok(offsets)

\* Lines::new: the offsets of the set's lines in order, or the error
Lines_new(lines, offsets) ==
    IF Len(offsets) = 0 \/ Len(offsets) > GPIOHANDLES_MAX
    THEN Err(bail_nix("EINVAL"))
    ELSE IF \E i \in 1..Len(offsets) : ~Line_new(lines, offsets[i]).ok
         THEN Err(Line_new(lines, offsets[FirstBad(lines, offsets)]).err)
         ELSE Ok([i \in 1..Len(offsets) |-> Line_new(lines, offsets[i]).val])

\* Chip::get_line
get_line(lines, offset) == Line_new(lines, offset)

\* Chip::get_lines
get_lines(lines, offsets) == Lines_new(lines, offsets)

\* r.collect() of a Range<u32>: a, a+1, .., b-1
RangeCollect(a, b) == IF a >= b THEN <<>> ELSE [i \in 1..(b - a) |-> a + i - 1]

\* Chip::get_range_lines
get_range_lines(lines, a, b) == get_lines(lines, RangeCollect(a, b))

\* Chip::get_all_lines
get_all_lines(lines) == get_range_lines(lines, 0, lines)


(***************************************************************************)
(* Flag bits (bitflags! LineRequestFlags / EventRequestFlags).             *)
(***************************************************************************)
INPUT == 1
OUTPUT == 2
RISING_EDGE == 1
FALLING_EDGE == 2
BOTH_EDGES == 3

\* flags.contains(bit) for a single-bit flag
HasBit(flags, bit) == (flags \div bit) % 2 = 1

\* the u8 the kernel stores for a value byte (!!v)
Norm(v) == IF v = 0 THEN 0 ELSE 1

Min2(a, b) == IF a <= b THEN a ELSE b

Range(s) == {s[i] : i \in 1..Len(s)}

Distinct(s) == \A i, j \in 1..Len(s) : i # j => s[i] # s[j]

\* a zeroed [T; GPIOHANDLES_MAX] with the first Len(s) entries set from s
\* (Rust index i is index i + 1 here)
Padded(s) == [i \in 1..GPIOHANDLES_MAX |-> IF i <= Len(s) THEN s[i] ELSE 0]

(***************************************************************************)
(* The consumer label.  Memory is a sequence of bytes; dst is the memory   *)
(* from the address the pointer holds on (Rust index i is index i + 1).    *)
(***************************************************************************)
\* a copy bounded by the source's length alone
rstr_lcpy_unbounded(dst, src, length) ==
    [i \in 1..Len(dst) |->
        IF i <= Len(src) THEN src[i]
        ELSE IF i = Len(src) + 1 THEN 0
        ELSE dst[i]]

\* rstr_lcpy: copylen - 1 bytes of src are copied, then byte copylen - 1 of
\* dst[..length] is set to 0
rstr_lcpy(dst, src, length) ==
    LET copylen == Min2(Len(src) + 1, length)
    IN  [i \in 1..Len(dst) |->
            IF i <= copylen - 1 THEN src[i]
            ELSE IF i = copylen THEN 0
            ELSE dst[i]]

\* the bytes of a u32 / c_int, least significant first
Le32(n) == <<n % 256, (n \div 256) % 256, (n \div 65536) % 256, (n \div 16777216) % 256>>

\* the request's memory from consumer_label on, after the label was
\* written: the zeroed label, then the fields that follow it in the struct
\* (lines and fd in gpiohandle_request, fd in gpioevent_request)
ConsumerLabel(consumer, tail) ==
    rstr_lcpy([i \in 1..LABEL_LEN |-> 0] \o tail, consumer, LABEL_LEN)

(***************************************************************************)
(* The kernel side of the ABI (the ioctls ffi.rs declares, close and read  *)
(* on the granted descriptors).  k is the kernel state                     *)
(*   [fd: descriptor table, holder: line -> descriptor, level: line -> u8, *)
(*    gone: the device was removed, every ioctl then fails with ENODEV]    *)
(***************************************************************************)
FdRange == (ChipFd + 1)..(ChipFd + MaxHandles)

ClosedFd ==
    [open |-> FALSE, kind |-> "none", lines |-> <<>>, flags |-> 0, eflags |-> 0,
     queue |-> <<>>, hist |-> <<>>, eof |-> FALSE, nonblock |-> FALSE, fail |-> FALSE]

\* the table entry of a descriptor number (an entry for every number)
KFd(k, fd) == IF fd \in DOMAIN k.fd THEN k.fd[fd] ELSE ClosedFd

KState == [fd |-> kfd, holder |-> holder, level |-> level, gone |-> gone]

FreeFds(k) == {fd \in FdRange : ~k.fd[fd].open}

\* the lowest free descriptor number
LowestFree(k) == CHOOSE fd \in FreeFds(k) : \A g \in FreeFds(k) : fd <= g

\* GPIO_GET_LINEHANDLE_IOCTL on the chip descriptor: all lines of the
\* request are granted, or none is
KernelLineHandle(k, req) ==
    LET n    == req.lines
        offs == [i \in 1..Min2(n, GPIOHANDLES_MAX) |-> req.lineoffsets[i]]
        out  == HasBit(req.flags, OUTPUT)
        fail(e) == [ok |-> FALSE, errno |-> e, fd |-> req.fd, k |-> k]
    IN  IF chipFile # "open" THEN fail("EBADF")
        ELSE IF k.gone THEN fail("ENODEV")
        ELSE IF n = 0 \/ n > GPIOHANDLES_MAX THEN fail("EINVAL")
        ELSE IF HasBit(req.flags, INPUT) /\ out THEN fail("EINVAL")
        ELSE IF \E i \in 1..n : offs[i] >= chipLines THEN fail("EINVAL")
        ELSE IF ~Distinct(offs) \/ \E i \in 1..n : k.holder[offs[i]] # 0
             THEN fail("EBUSY")
        ELSE IF FreeFds(k) = {} THEN fail("EMFILE")
        ELSE LET fd == LowestFree(k)
             IN  [ok |-> TRUE, errno |-> "", fd |-> fd,
                  k |-> [fd |-> [k.fd EXCEPT ![fd] =
                                   [ClosedFd EXCEPT !.open = TRUE, !.kind = "handle",
                                                    !.lines = offs, !.flags = req.flags]],
                         holder |-> [o \in DOMAIN k.holder |->
                                       IF o \in Range(offs) THEN fd ELSE k.holder[o]],
                         level |-> [o \in DOMAIN k.level |->
                                       IF out /\ o \in Range(offs)
                                       THEN Norm(req.default_values[
                                                CHOOSE i \in 1..n : offs[i] = o])
                                       ELSE k.level[o]],
                         gone |-> k.gone]]

\* GPIO_GET_LINEEVENT_IOCTL on the chip descriptor
KernelLineEvent(k, req) ==
    LET o == req.lineoffset
        fail(e) == [ok |-> FALSE, errno |-> e, fd |-> req.fd, k |-> k]
    IN  IF chipFile # "open" THEN fail("EBADF")
        ELSE IF k.gone THEN fail("ENODEV")
        ELSE IF o >= chipLines THEN fail("EINVAL")
        ELSE IF HasBit(req.handleflags, OUTPUT) THEN fail("EINVAL")
        ELSE IF k.holder[o] # 0 THEN fail("EBUSY")
        ELSE IF FreeFds(k) = {} THEN fail("EMFILE")
        ELSE LET fd == LowestFree(k)
             IN  [ok |-> TRUE, errno |-> "", fd |-> fd,
                  k |-> [fd |-> [k.fd EXCEPT ![fd] =
                                   [ClosedFd EXCEPT !.open = TRUE, !.kind = "event",
                                                    !.lines = <<o>>,
                                                    !.flags = req.handleflags,
                                                    !.eflags = req.eventflags]],
                         holder |-> [k.holder EXCEPT ![o] = fd],
                         level |-> k.level,
                         gone |-> k.gone]]

\* close(fd): the descriptor's lines are released, and a released line
\* goes back to its idle level
KernelClose(k, fd) ==
    IF ~KFd(k, fd).open THEN k
    ELSE [fd |-> [k.fd EXCEPT ![fd] = ClosedFd],
          holder |-> [o \in DOMAIN k.holder |-> IF k.holder[o] = fd THEN 0 ELSE k.holder[o]],
          level |-> [o \in DOMAIN k.level |-> IF k.holder[o] = fd THEN 0 ELSE k.level[o]],
          gone |-> k.gone]

\* GPIOHANDLE_GET_LINE_VALUES_IOCTL: values[i] is the level of the i-th
\* line of the descriptor's request
KernelGetValues(k, fd, data) ==
    LET d == KFd(k, fd)
    IN  IF ~d.open THEN [ok |-> FALSE, errno |-> "EBADF", data |-> data]
        ELSE IF k.gone THEN [ok |-> FALSE, errno |-> "ENODEV", data |-> data]
        ELSE [ok |-> TRUE, errno |-> "",
              data |-> [values |-> [i \in 1..GPIOHANDLES_MAX |->
                                      IF i <= Len(d.lines) THEN k.level[d.lines[i]]
                                      ELSE data.values[i]]]]

\* GPIOHANDLE_SET_LINE_VALUES_IOCTL: only an output line handle takes it
KernelSetValues(k, fd, data) ==
    LET d == KFd(k, fd)
        fail(e) == [ok |-> FALSE, errno |-> e, k |-> k]
    IN  IF ~d.open THEN fail("EBADF")
        ELSE IF k.gone THEN fail("ENODEV")
        ELSE IF d.kind # "handle" THEN fail("EINVAL")
        ELSE IF ~HasBit(d.flags, OUTPUT) THEN fail("EPERM")
        ELSE [ok |-> TRUE, errno |-> "",
              k |-> [fd |-> k.fd, holder |-> k.holder,
                     level |-> [o \in DOMAIN k.level |->
                                  IF o \in Range(d.lines)
                                  THEN Norm(data.values[CHOOSE i \in 1..Len(d.lines) :
                                                            d.lines[i] = o])
                                  ELSE k.level[o]],
                     gone |-> k.gone]]


(***************************************************************************)
(* Userspace values.                                                       *)
(*   objs       the bag of live Chip, Line and Lines values; a value is    *)
(*              its type and the offsets of the Line values it holds (each *)
(*              holds one clone of the Arc; a Chip holds one)              *)
(*   handles[h] a handle: its kind, the offsets of the Line/Lines it       *)
(*              holds, its flags and the descriptor its File owns          *)
(***************************************************************************)
HandleSlots == 1..MaxHandles

ChipObj == [type |-> "Chip", offsets |-> <<>>]

LineObj(offset) == [type |-> "Line", offsets |-> <<offset>>]

LinesObj(offsets) == [type |-> "Lines", offsets |-> offsets]

Objs == BagToSet(objs)

\* room for one more value
RoomForObj == BagCardinality(objs) < MaxObjs

AddObj(v) == objs (+) SetToBag({v})

RemoveObj(v) == objs (-) SetToBag({v})

NoHandle ==
    [kind |-> "none", lines |-> <<>>, flags |-> 0, eflags |-> 0, fd |-> 0,
     readiness |-> FALSE, cached |-> FALSE, waker |-> FALSE, polling |-> FALSE]

\* every value counted as holding one clone
ArcsOf_one(obj) == 1

\* Arc clones a value holds
ArcsOf(obj) == IF obj.type \in {"Chip", "LineIterator"} THEN 1 ELSE Len(obj.offsets)

FreeHandles == {h \in HandleSlots : handles[h].kind = "none"}

NewHandle == CHOOSE h \in FreeHandles : \A g \in FreeHandles : h <= g

HaveChip == ChipObj \in Objs

Live(h) == handles[h].kind # "none"

\* a live handle holds one of these offsets
Busy(offsets) ==
    \E h \in HandleSlots : Live(h) /\ Range(handles[h].lines) \cap Range(offsets) # {}

NoPrev == [op |-> "", slot |-> 0, arg |-> <<>>, ok |-> FALSE]

\* what an operation returned: its name, the slot it was called on, its
\* arguments, its result, whether a live handle held one of the lines it
\* named when it was called, the ioctls it issued, and (see After) the
\* operation before it
Ret(op, slot, arg, res, busy, ioctls) ==
    [op |-> op, slot |-> slot, arg |-> arg, res |-> res, busy |-> busy, ioctls |-> ioctls,
     prev |-> NoPrev]

\* r, with the operation before it when that was one of ops and succeeded
After(r, ops) ==
    IF ret.op \in ops /\ ret.res.ok
    THEN [r EXCEPT !.prev = [op |-> ret.op, slot |-> ret.slot, arg |-> ret.arg,
                             ok |-> ret.res.ok]]
    ELSE r

\* Drop for Arc<Box<InnerChip>>: the chip file closes with the last clone
ArcDrop(n) ==
    /\ arc' = arc - n
    /\ chipFile' = IF arc - n = 0 THEN "closed" ELSE chipFile

SetKernel(k) ==
    /\ kfd' = k.fd
    /\ holder' = k.holder
    /\ level' = k.level
    /\ gone' = k.gone

kvars == <<kfd, holder, level, gone>>

(***************************************************************************)
(* Chip: construction of Line and Lines values.                            *)
(***************************************************************************)
\* a constructor's result stored: the new value takes a slot and its Arc
\* clones; a failed constructor has dropped the clones it was given
Construct(op, arg, res, v) ==
    /\ HaveChip
    /\ res.ok => RoomForObj
    /\ objs' = IF res.ok THEN AddObj(v) ELSE objs
    /\ arc' = IF res.ok THEN arc + ArcsOf(v) ELSE arc
    /\ ret' = Ret(op, 0, arg, res, FALSE, <<>>)
    /\ UNCHANGED <<chipLines, chipFile, handles, kvars, badClose>>

\* GPIO_GET_LINEINFO_IOCTL on the chip descriptor: the flags say whether the
\* line is in use (KERNEL) and whether it is an output (IS_OUT)
KernelLineInfo(k, offset) ==
    IF chipFile # "open" THEN [ok |-> FALSE, errno |-> "EBADF", flags |-> 0]
    ELSE IF k.gone THEN [ok |-> FALSE, errno |-> "ENODEV", flags |-> 0]
    ELSE IF offset >= chipLines THEN [ok |-> FALSE, errno |-> "EINVAL", flags |-> 0]
    ELSE [ok |-> TRUE, errno |-> "",
          flags |-> IF k.holder[offset] = 0 THEN 0
                    ELSE IF HasBit(KFd(k, k.holder[offset]).flags, OUTPUT) THEN 3
                    ELSE 1]

\* the gpioline_info Line::info prepares
LineInfoRecord(offset) ==
    [line_offset |-> offset, flags |-> 0, name |-> [i \in 1..LABEL_LEN |-> 0],
     consumer |-> [i \in 1..LABEL_LEN |-> 0]]

\* Line::info: the LineInfo it returns holds a clone of the Line
Line_info(k, offset) ==
    LET line_info == LineInfoRecord(offset)
        io == KernelLineInfo(k, line_info.line_offset)
    IN  IF ~io.ok
        THEN Err(chain_err(ioctl_err("LineInfo", io.errno), "lineinfo ioctl failed"))
        ELSE Ok(io.flags)

LineInfoObj(offset) == [type |-> "LineInfo", offsets |-> <<offset>>]

Info(v) ==
    LET res == Line_info(KState, v.offsets[1])
    IN  /\ v \in Objs /\ v.type = "Line"
        /\ res.ok => RoomForObj
        /\ objs' = IF res.ok THEN AddObj(LineInfoObj(v.offsets[1])) ELSE objs
        /\ arc' = IF res.ok THEN arc + 1 ELSE arc
        /\ ret' = Ret("info", 0, v.offsets, res, FALSE, <<"LineInfo">>)
        /\ UNCHANGED <<chipLines, chipFile, handles, kvars, badClose>>

GetLine(offset) ==
    LET res == get_line(chipLines, offset)
    IN  Construct("get_line", offset, res, LineObj(res.val))

GetLines(offsets) ==
    LET res == get_lines(chipLines, offsets)
    IN  Construct("get_lines", offsets, res, LinesObj(res.val))

GetRangeLines(a, b) ==
    LET res == get_range_lines(chipLines, a, b)
    IN  Construct("get_range_lines", <<a, b>>, res, LinesObj(res.val))

GetAllLines ==
    LET res == get_all_lines(chipLines)
    IN  Construct("get_all_lines", <<>>, res, LinesObj(res.val))

\* Chip::lines and LineIterator.  An iterator is its idx; seen is the
\* offsets it has yielded so far, in order
LineIteratorObj(idx, seen) ==
    [type |-> "LineIterator", offsets |-> <<>>, idx |-> idx, seen |-> seen]

\* Option::unwrap on an Err
Panic == [ok |-> FALSE, val |-> <<>>, err |-> [NoErr EXCEPT !.kind = "panic"], opt |-> "some"]

\* an iterator that advances idx before it builds the Line
LineIterator_next_preinc(lines, idx) ==
    IF idx < lines
    THEN [res |-> IF Line_new(lines, idx + 1).ok THEN Ok(Line_new(lines, idx + 1).val)
                  ELSE Panic,
          idx |-> idx + 1]
    ELSE [res |-> None, idx |-> idx]

\* Iterator for LineIterator: next.  [res, idx]: the item and self.idx after
LineIterator_next(lines, idx) ==
    IF idx < lines
    THEN [res |-> IF Line_new(lines, idx).ok THEN Ok(Line_new(lines, idx).val)
                  ELSE Panic,
          idx |-> idx + 1]
    ELSE [res |-> None, idx |-> idx]

Iters == {v \in Objs : v.type = "LineIterator"}

\* room for one more iterator
RoomForIter == BagCardinality([v \in Iters |-> objs[v]]) < MaxIters

\* Chip::lines
ChipLines(v) ==
    /\ v \in Objs /\ v.type = "Chip"
    /\ RoomForIter
    /\ objs' = AddObj(LineIteratorObj(0, <<>>))
    /\ arc' = arc + 1
    /\ ret' = Ret("lines", 0, <<>>, Ok(0), FALSE, <<>>)
    /\ UNCHANGED <<chipLines, chipFile, handles, kvars, badClose>>

\* an advance of a LineIterator; the caller keeps the Line it got (keep) or
\* drops it at once.  ret keeps what the iterator had yielded before
IterAdvance(v, keep) ==
    /\ v \in Objs /\ v.type = "LineIterator"
    /\ LET r == LineIterator_next(chipLines, v.idx)
           item == r.res.ok /\ r.res.opt = "some"
           after == LineIteratorObj(r.idx, IF item THEN Append(v.seen, r.res.val)
                                                    ELSE v.seen)
           moved == (objs (-) SetToBag({v})) (+) SetToBag({after})
       IN  /\ keep => item /\ RoomForObj
           /\ objs' = IF keep THEN moved (+) SetToBag({LineObj(r.res.val)}) ELSE moved
           /\ arc' = IF keep THEN arc + 1 ELSE arc
           /\ ret' = Ret("LineIterator::next", 0, v.seen, r.res, FALSE, <<>>)
    /\ UNCHANGED <<chipLines, chipFile, handles, kvars, badClose>>

\* Clone for Line (derive(Clone)): a second Line with the same offset
LineClone(v) ==
    /\ v \in Objs /\ v.type = "Line"
    /\ RoomForObj
    /\ objs' = AddObj(v)
    /\ arc' = arc + 1
    /\ ret' = Ret("Line::clone", 0, v.offsets, Ok(v.offsets[1]), FALSE, <<>>)
    /\ UNCHANGED <<chipLines, chipFile, handles, kvars, badClose>>

\* Line::chip, Lines::chip: a new Chip value sharing the InnerChip
ValueChip(v) ==
    /\ v \in Objs /\ v.type \in {"Line", "Lines"}
    /\ RoomForObj
    /\ objs' = AddObj(ChipObj)
    /\ arc' = arc + 1
    /\ ret' = Ret("chip", 0, v.offsets, Ok(0), FALSE, <<>>)
    /\ UNCHANGED <<chipLines, chipFile, handles, kvars, badClose>>

\* Drop of a Chip, Line, Lines or LineInfo value: it holds no descriptor
\* but the Arc clones
DropObj(v) ==
    /\ v \in Objs
    /\ objs' = RemoveObj(v)
    /\ ArcDrop(ArcsOf(v))
    /\ ret' = Ret("drop", 0, v.offsets, Ok(0), FALSE, <<>>)
    /\ UNCHANGED <<chipLines, handles, kvars, badClose>>

(***************************************************************************)
(* The Request Protocol.                                                   *)
(***************************************************************************)
\* the gpiohandle_request Line::request prepares (the consumer label apart)
LineRequestRecord(offset, flags, default) ==
    [lineoffsets |-> Padded(<<offset>>), flags |-> flags,
     default_values |-> Padded(<<default>>), lines |-> 1, fd |-> 0]

\* a request record whose default for a line sits at the line's offset on
\* the chip
LinesRequestRecord_by_offset(offsets, flags, default) ==
    [lineoffsets |-> Padded([i \in 1..Len(offsets) |-> offsets[i]]), flags |-> flags,
     default_values |-> Padded([i \in 1..Len(offsets) |->
                                  IF offsets[i] + 1 <= Len(default)
                                  THEN default[offsets[i] + 1] ELSE 0]),
     lines |-> Len(offsets), fd |-> 0]

\* the gpiohandle_request Lines::request prepares: entry i of both arrays
\* is for the i-th line of the set
LinesRequestRecord(offsets, flags, default) ==
    [lineoffsets |-> Padded([i \in 1..Len(offsets) |-> offsets[i]]), flags |-> flags,
     default_values |-> Padded([i \in 1..Len(offsets) |-> default[i]]),
     lines |-> Len(offsets), fd |-> 0]

\* the File a handle owns, built from the descriptor the kernel wrote
MkHandle(kind, lines, flags, eflags, fd) ==
    [NoHandle EXCEPT !.kind = kind, !.lines = lines, !.flags = flags,
                     !.eflags = eflags, !.fd = fd]

\* a Line::request that builds its handle without looking at the ioctl's
\* result
Line_request_unchecked(k, offset, flags, default) ==
    LET io == KernelLineHandle(k, LineRequestRecord(offset, flags, default))
    IN  [res |-> Ok(io.fd), handle |-> MkHandle("LineHandle", <<offset>>, flags, 0, io.fd),
         k |-> io.k, ioctls |-> <<"LineHandle">>]

\* Line::request: [res, handle (NoHandle when none is built), k, ioctls]
Line_request(k, offset, flags, default) ==
    LET request == LineRequestRecord(offset, flags, default)
        io == KernelLineHandle(k, request)
    IN  IF ~io.ok
        THEN [res |-> Err(chain_err(ioctl_err("LineHandle", io.errno),
                                    "linehandle request ioctl failed")),
              handle |-> NoHandle, k |-> io.k, ioctls |-> <<"LineHandle">>]
        ELSE [res |-> Ok(io.fd),
              handle |-> MkHandle("LineHandle", <<offset>>, flags, 0, io.fd),
              k |-> io.k, ioctls |-> <<"LineHandle">>]

\* a Lines::request that builds its handle before it looks at the ioctl's
\* result
Lines_request_early_handle(k, offsets, flags, default) ==
    LET n == Len(offsets)
    IN  IF Len(default) # n
        THEN [res |-> Err(bail_nix("EINVAL")), handle |-> NoHandle, k |-> k,
              ioctls |-> <<>>]
        ELSE LET request == LinesRequestRecord(offsets, flags, default)
                 io == KernelLineHandle(k, request)
             IN  [res |-> IF io.ok THEN Ok(io.fd)
                          ELSE Err(chain_err(ioctl_err("LineHandle", io.errno),
                                             "linehandle request ioctl failed")),
                  handle |-> MkHandle("MultiLineHandle", offsets, flags, 0, io.fd),
                  k |-> io.k, ioctls |-> <<"LineHandle">>]

\* a request for a set made line by line: the first line on its own, then
\* the others; the lines granted before a refusal stay granted
Lines_request_per_line(k, offsets, flags, default) ==
    LET n == Len(offsets)
    IN  IF Len(default) # n
        THEN [res |-> Err(bail_nix("EINVAL")), handle |-> NoHandle, k |-> k,
              ioctls |-> <<>>]
        ELSE LET first == KernelLineHandle(k, LineRequestRecord(offsets[1], flags,
                                                                default[1]))
                 rest == IF n > 1 /\ first.ok
                         THEN KernelLineHandle(first.k, LinesRequestRecord(Tail(offsets),
                                                           flags, Tail(default)))
                         ELSE first
             IN  IF ~rest.ok
                 THEN [res |-> Err(chain_err(ioctl_err("LineHandle", rest.errno),
                                             "linehandle request ioctl failed")),
                       handle |-> NoHandle, k |-> rest.k,
                       ioctls |-> IF n > 1 /\ first.ok THEN <<"LineHandle", "LineHandle">>
                                  ELSE <<"LineHandle">>]
                 ELSE [res |-> Ok(first.fd),
                       handle |-> MkHandle("MultiLineHandle", offsets, flags, 0, first.fd),
                       k |-> rest.k, ioctls |-> <<"LineHandle">>]

\* Lines::request
Lines_request(k, offsets, flags, default) ==
    LET n == Len(offsets)
    IN  IF Len(default) # n
        THEN [res |-> Err(bail_nix("EINVAL")), handle |-> NoHandle, k |-> k,
              ioctls |-> <<>>]
        ELSE LET request == LinesRequestRecord(offsets, flags, default)
                 io == KernelLineHandle(k, request)
             IN  IF ~io.ok
                 THEN [res |-> Err(chain_err(ioctl_err("LineHandle", io.errno),
                                             "linehandle request ioctl failed")),
                       handle |-> NoHandle, k |-> io.k, ioctls |-> <<"LineHandle">>]
                 ELSE [res |-> Ok(io.fd),
                       handle |-> MkHandle("MultiLineHandle", offsets, flags, 0, io.fd),
                       k |-> io.k, ioctls |-> <<"LineHandle">>]

\* a Line::events that wraps the request's descriptor field whatever the
\* ioctl returned
Line_events_unchecked(k, offset, handle_flags, event_flags) ==
    LET request == [lineoffset |-> offset, handleflags |-> handle_flags,
                    eventflags |-> event_flags, fd |-> 0]
        io == KernelLineEvent(k, request)
    IN  [res |-> IF io.ok THEN Ok(io.fd)
                 ELSE Err(chain_err(ioctl_err("LineEvent", io.errno),
                                    "lineevent ioctl failed")),
         handle |-> MkHandle("LineEventHandle", <<offset>>, handle_flags, event_flags,
                             io.fd),
         k |-> io.k, ioctls |-> <<"LineEvent">>]

\* Line::events
Line_events(k, offset, handle_flags, event_flags) ==
    LET request == [lineoffset |-> offset, handleflags |-> handle_flags,
                    eventflags |-> event_flags, fd |-> 0]
        io == KernelLineEvent(k, request)
    IN  IF ~io.ok
        THEN [res |-> Err(chain_err(ioctl_err("LineEvent", io.errno),
                                    "lineevent ioctl failed")),
              handle |-> NoHandle, k |-> io.k, ioctls |-> <<"LineEvent">>]
        ELSE [res |-> Ok(io.fd),
              handle |-> MkHandle("LineEventHandle", <<offset>>, handle_flags,
                                  event_flags, io.fd),
              k |-> io.k, ioctls |-> <<"LineEvent">>]

\* a request's outcome stored: the handle, if one was built, takes a slot
\* and holds clones of the lines it was requested for
Request(op, v, arg, r) ==
    /\ v \in Objs
    /\ FreeHandles # {}
    /\ handles' = IF r.handle.kind # "none"
                  THEN [handles EXCEPT ![NewHandle] = r.handle]
                  ELSE handles
    /\ arc' = arc + Len(r.handle.lines)
    /\ SetKernel(r.k)
    /\ ret' = After(Ret(op, NewHandle, arg, r.res, Busy(v.offsets), r.ioctls),
                     {"drop_handle"})
    /\ UNCHANGED <<chipLines, chipFile, objs, badClose>>

LineRequest(v, flags, default) ==
    /\ v.type = "Line"
    /\ Request("Line::request", v, <<v.offsets, flags, <<default>>>>,
               Line_request(KState, v.offsets[1], flags, default))

LinesRequest(v, flags, default) ==
    /\ v.type = "Lines"
    /\ Request("Lines::request", v, <<v.offsets, flags, default>>,
               Lines_request(KState, v.offsets, flags, default))

LineEvents(v, handle_flags, event_flags) ==
    /\ v.type = "Line"
    /\ Request("Line::events", v, <<v.offsets, handle_flags, <<>>>>,
               Line_events(KState, v.offsets[1], handle_flags, event_flags))

\* the requests with their consumer string: ret keeps the string and the
\* request's memory from consumer_label on, as the ioctl saw it
LineRequestAs(v, flags, default, consumer) ==
    /\ v.type = "Line"
    /\ Request("Line::request", v,
               <<v.offsets, flags, <<default>>, consumer,
                 ConsumerLabel(consumer, Le32(1) \o Le32(0))>>,
               Line_request(KState, v.offsets[1], flags, default))

LinesRequestAs(v, flags, default, consumer) ==
    /\ v.type = "Lines"
    /\ Request("Lines::request", v,
               <<v.offsets, flags, default, consumer,
                 ConsumerLabel(consumer, Le32(Len(v.offsets)) \o Le32(0))>>,
               Lines_request(KState, v.offsets, flags, default))

LineEventsAs(v, handle_flags, event_flags, consumer) ==
    /\ v.type = "Line"
    /\ Request("Line::events", v,
               <<v.offsets, handle_flags, <<>>, consumer,
                 ConsumerLabel(consumer, Le32(0))>>,
               Line_events(KState, v.offsets[1], handle_flags, event_flags))

(***************************************************************************)
(* Value I/O.  Each operator gives [res, k, ioctls]: the result, the       *)
(* kernel state after the call and the ioctls issued.                      *)
(***************************************************************************)
\* mem::zeroed() gpiohandle_data
ZeroData == [values |-> Padded(<<>>)]

\* LineHandle::get_value
LineHandle_get_value(k, h) ==
    LET io == KernelGetValues(k, h.fd, ZeroData)
    IN  [res |-> IF io.ok THEN Ok(io.data.values[1])
                 ELSE Err(chain_err(ioctl_err("GetLine", io.errno),
                                    "getting line value failed")),
         k |-> k, ioctls |-> <<"GetLine">>]

\* LineHandle::set_value
LineHandle_set_value(k, h, value) ==
    LET data == [values |-> Padded(<<value>>)]
        io == KernelSetValues(k, h.fd, data)
    IN  [res |-> IF io.ok THEN Ok(0)
                 ELSE Err(chain_err(ioctl_err("SetLine", io.errno),
                                    "setting line value failed")),
         k |-> io.k, ioctls |-> <<"SetLine">>]

\* MultiLineHandle::num_lines
num_lines(h) == Len(h.lines)

\* MultiLineHandle::get_values
MultiLineHandle_get_values(k, h) ==
    LET io == KernelGetValues(k, h.fd, ZeroData)
        n == num_lines(h)
    IN  [res |-> IF io.ok THEN Ok([i \in 1..n |-> io.data.values[i]])
                 ELSE Err(chain_err(ioctl_err("GetLine", io.errno),
                                    "getting line value failed")),
         k |-> k, ioctls |-> <<"GetLine">>]

\* the gpiohandle_data set_values prepares for a handle of n lines
SetValuesRecord(values, n) == [values |-> Padded([i \in 1..n |-> values[i]])]

\* a set_values whose copy loop stops after the first value
MultiLineHandle_set_values_first(k, h, values) ==
    LET n == num_lines(h)
    IN  IF Len(values) # n
        THEN [res |-> Err(bail_nix("EINVAL")), k |-> k, ioctls |-> <<>>]
        ELSE LET data == [values |-> Padded(<<values[1]>>)]
                 io == KernelSetValues(k, h.fd, data)
             IN  [res |-> IF io.ok THEN Ok(0)
                          ELSE Err(chain_err(ioctl_err("SetLine", io.errno),
                                             "setting line value failed")),
                  k |-> io.k, ioctls |-> <<"SetLine">>]

\* MultiLineHandle::set_values
MultiLineHandle_set_values(k, h, values) ==
    LET n == num_lines(h)
    IN  IF Len(values) # n
        THEN [res |-> Err(bail_nix("EINVAL")), k |-> k, ioctls |-> <<>>]
        ELSE LET data == SetValuesRecord(values, n)
                 io == KernelSetValues(k, h.fd, data)
             IN  [res |-> IF io.ok THEN Ok(0)
                          ELSE Err(chain_err(ioctl_err("SetLine", io.errno),
                                             "setting line value failed")),
                  k |-> io.k, ioctls |-> <<"SetLine">>]

\* a get_value that passes the OS error on without the ioctl's kind
LineEventHandle_get_value_untagged(k, h) ==
    LET io == KernelGetValues(k, h.fd, ZeroData)
    IN  [res |-> IF io.ok THEN Ok(io.data.values[1])
                 ELSE Err(bail_nix(io.errno)),
         k |-> k, ioctls |-> <<"GetLine">>]

\* a get_value that takes the record at the head of the descriptor's queue
LineEventHandle_get_value_consuming(k, h) ==
    LET io == KernelGetValues(k, h.fd, ZeroData)
    IN  [res |-> IF io.ok THEN Ok(io.data.values[1])
                 ELSE Err(ioctl_err("GetLine", io.errno)),
         k |-> IF KFd(k, h.fd).queue # <<>>
               THEN [k EXCEPT !.fd[h.fd].queue = Tail(@)]
               ELSE k,
         ioctls |-> <<"GetLine">>]

\* LineEventHandle::get_value
LineEventHandle_get_value(k, h) ==
    LET io == KernelGetValues(k, h.fd, ZeroData)
    IN  [res |-> IF io.ok THEN Ok(io.data.values[1])
                 ELSE Err(ioctl_err("GetLine", io.errno)),
         k |-> k, ioctls |-> <<"GetLine">>]

\* a value operation's outcome stored
ValueOp(op, h, arg, r) ==
    /\ SetKernel(r.k)
    /\ ret' = Ret(op, h, arg, r.res, FALSE, r.ioctls)
    /\ UNCHANGED <<chipLines, chipFile, arc, objs, handles, badClose>>

GetValue(h) ==
    /\ handles[h].kind = "LineHandle"
    /\ ValueOp("get_value", h, <<>>, LineHandle_get_value(KState, handles[h]))

SetValue(h, value) ==
    /\ handles[h].kind = "LineHandle"
    /\ ValueOp("set_value", h, <<value>>, LineHandle_set_value(KState, handles[h], value))

\* ret keeps the set_values on this handle, or the Lines::request that
\* built it, that came just before
GetValues(h) ==
    LET r == MultiLineHandle_get_values(KState, handles[h])
    IN  /\ handles[h].kind = "MultiLineHandle"
        /\ SetKernel(r.k)
        /\ ret' = IF ret.slot = h
                  THEN After(Ret("get_values", h, <<>>, r.res, FALSE, r.ioctls),
                             {"set_values", "Lines::request"})
                  ELSE Ret("get_values", h, <<>>, r.res, FALSE, r.ioctls)
        /\ UNCHANGED <<chipLines, chipFile, arc, objs, handles, badClose>>

SetValues(h, values) ==
    /\ handles[h].kind = "MultiLineHandle"
    /\ ValueOp("set_values", h, values,
               MultiLineHandle_set_values(KState, handles[h], values))

\* on a LineEventHandle, or through AsyncLineEventHandle::as_ref
EventGetValue(h) ==
    /\ handles[h].kind \in {"LineEventHandle", "AsyncLineEventHandle"}
    /\ ValueOp("LineEventHandle::get_value", h, <<>>,
               LineEventHandle_get_value(KState, handles[h]))

\* line() / lines() of a handle, cloned: a Line or Lines value of the
\* handle's lines
HandleLines(h) ==
    /\ Live(h)
    /\ RoomForObj
    /\ objs' = AddObj([type |-> IF handles[h].kind = "MultiLineHandle"
                                 THEN "Lines" ELSE "Line",
                        offsets |-> handles[h].lines])
    /\ arc' = arc + Len(handles[h].lines)
    /\ ret' = Ret("line", h, <<>>, Ok(handles[h].lines), FALSE, <<>>)
    /\ UNCHANGED <<chipLines, chipFile, handles, kvars, badClose>>

(***************************************************************************)
(* Drop of a handle.                                                       *)
(***************************************************************************)
\* Drop for the handle's `file: File`: close(fd)
\* a File whose drop leaves the descriptor open
File_leak(k, fd) == k

File_drop(k, fd) == KernelClose(k, fd)

\* a drop that closes the File and leaves the task's waker registered
DropHandle_keep_waker(h) ==
    /\ Live(h)
    /\ SetKernel(File_drop(KState, handles[h].fd))
    /\ badClose' = (badClose \/ ~KFd(KState, handles[h].fd).open)
    /\ handles' = [handles EXCEPT ![h] = [NoHandle EXCEPT !.waker = handles[h].waker]]
    /\ ArcDrop(Len(handles[h].lines))
    /\ ret' = Ret("drop_handle", h, handles[h].lines, Ok(0), FALSE, <<>>)
    /\ UNCHANGED <<chipLines, objs>>

\* Drop for LineHandle, MultiLineHandle, LineEventHandle and
\* AsyncLineEventHandle (PollEvented deregisters, then the PollWrapper and
\* its LineEventHandle go): the File closes, the Line values go.  ret keeps
\* the poll_next on this handle that came just before
DropHandle(h) ==
    /\ Live(h)
    /\ SetKernel(File_drop(KState, handles[h].fd))
    /\ badClose' = (badClose \/ ~KFd(KState, handles[h].fd).open)
    /\ handles' = [handles EXCEPT ![h] = NoHandle]
    /\ ArcDrop(Len(handles[h].lines))
    /\ ret' = IF ret.slot = h
              THEN After(Ret("drop_handle", h, handles[h].lines, Ok(0), FALSE, <<>>),
                         {"poll_next"})
              ELSE Ret("drop_handle", h, handles[h].lines, Ok(0), FALSE, <<>>)
    /\ UNCHANGED <<chipLines, objs>>

(***************************************************************************)
(* The Event Stream Protocol.                                              *)
(*                                                                         *)
(* An event descriptor delivers chunks in the order they were queued.  A   *)
(* chunk [n, ts, id] is what one read returns: n = EVENT_SIZE bytes for a  *)
(* whole gpioevent_data (timestamp ts, edge id), fewer for a short read.   *)
(* hist is every chunk the descriptor was ever given.  eof marks a source  *)
(* that was closed: a read finding the queue empty then returns 0 bytes.   *)
(***************************************************************************)
ZeroEvent == [timestamp |-> 0, id |-> 0]

\* read(fd, buf) with a buffer of EVENT_SIZE bytes
KernelRead(k, fd) ==
    LET d == KFd(k, fd)
        out(blocked, ok, errno, n, data, k2) ==
            [blocked |-> blocked, ok |-> ok, errno |-> errno, n |-> n, data |-> data,
             k |-> k2]
    IN  IF ~d.open THEN out(FALSE, FALSE, "EBADF", 0, ZeroEvent, k)
        ELSE IF d.fail THEN out(FALSE, FALSE, "ENODEV", 0, ZeroEvent, k)
        ELSE IF d.queue # <<>>
             THEN out(FALSE, TRUE, "", Head(d.queue).n,
                      [timestamp |-> Head(d.queue).ts, id |-> Head(d.queue).id],
                      [k EXCEPT !.fd[fd].queue = Tail(d.queue)])
        ELSE IF d.eof THEN out(FALSE, TRUE, "", 0, ZeroEvent, k)
        ELSE IF d.nonblock THEN out(FALSE, FALSE, "EAGAIN", 0, ZeroEvent, k)
        ELSE out(TRUE, FALSE, "", 0, ZeroEvent, k)

\* the number of chunks read from the descriptor so far
Consumed(k, fd) == Len(KFd(k, fd).hist) - Len(KFd(k, fd).queue)

\* the descriptor is readable (EPOLLIN or EPOLLHUP)
Readable(k, fd) ==
    KFd(k, fd).open /\ (KFd(k, fd).queue # <<>> \/ KFd(k, fd).eof \/ KFd(k, fd).fail)

\* LineEvent::event_type
event_type(ev) == IF ev.id = 1 THEN "RisingEdge" ELSE "FallingEdge"

\* a get_event that reads again after a short read
LineEventHandle_get_event_retry(k, h) ==
    LET io == KernelRead(k, h.fd)
        io2 == KernelRead(io.k, h.fd)
    IN  IF io.ok /\ io.n # EVENT_SIZE
        THEN [blocked |-> io2.blocked,
              res |-> IF io2.ok /\ io2.n = EVENT_SIZE THEN Ok(io2.data)
                      ELSE Err(bail_nix("EIO")),
              k |-> io2.k]
        ELSE [blocked |-> io.blocked,
              res |-> IF ~io.ok THEN Err(bail_nix(io.errno)) ELSE Ok(io.data),
              k |-> io.k]

\* LineEventHandle::get_event: [blocked, res, k]
LineEventHandle_get_event(k, h) ==
    LET io == KernelRead(k, h.fd)
    IN  [blocked |-> io.blocked,
         res |-> IF ~io.ok THEN Err(bail_nix(io.errno))
                 ELSE IF io.n # EVENT_SIZE THEN Err(bail_nix("EIO"))
                 ELSE Ok(io.data),
         k |-> io.k]

\* a next that reports a read of another size than the record's as an
\* error, as get_event does
LineEventHandle_next_short_error(k, h) == LineEventHandle_get_event(k, h)

\* Iterator for LineEventHandle: next
LineEventHandle_next(k, h) ==
    LET io == KernelRead(k, h.fd)
    IN  [blocked |-> io.blocked,
         res |-> IF io.ok
                 THEN IF io.n # EVENT_SIZE THEN None ELSE Ok(io.data)
                 ELSE Err(bail_nix(io.errno)),
         k |-> io.k]

\* LineEventHandle::read_event, which poll_next calls: the nix error of
\* the read, Ok(None) for a read of another size than the record's, else
\* Ok(Some(event))
read_event(k, h) ==
    LET io == KernelRead(k, h.fd)
    IN  [blocked |-> io.blocked,
         res |-> IF ~io.ok THEN Err(bail_nix(io.errno))
                 ELSE IF io.n # EVENT_SIZE THEN None
                 ELSE Ok(io.data),
         k |-> io.k]

\* a wrapper built on a copy of the handle, the original left in place
AsyncLineEventHandle_copy(hs, h, k) ==
    [g \in DOMAIN hs |->
        IF g # h /\ hs[g].kind = "none"
        THEN [hs[h] EXCEPT !.kind = "AsyncLineEventHandle",
                           !.readiness = Readable(k, hs[h].fd)]
        ELSE hs[g]]

\* AsyncLineEventHandle::new on success: the LineEventHandle moves into
\* the PollWrapper; the registration reports the readiness at hand
AsyncLineEventHandle_new(hs, h, k) ==
    [hs EXCEPT ![h] = [hs[h] EXCEPT !.kind = "AsyncLineEventHandle",
                                   !.readiness = Readable(k, hs[h].fd),
                                   !.cached = FALSE, !.waker = FALSE]]

\* a poll_next that yields the record at the head of the queue and leaves
\* it there
poll_next_peek(k, h) ==
    LET r == read_event(k, h)
    IN  IF r.res.ok /\ r.res.opt = "some"
        THEN [res |-> Ok(r.res.val), k |-> k, handle |-> h]
        ELSE [res |-> Pending, k |-> k, handle |-> h]

\* a poll_next that reports a would-block read as an error item
poll_next_eagain_error(k, h) ==
    IF ~(h.cached \/ h.readiness)
    THEN [res |-> Pending, k |-> k, handle |-> [h EXCEPT !.waker = TRUE]]
    ELSE LET h1 == [h EXCEPT !.cached = TRUE, !.readiness = FALSE]
             r == read_event(k, h1)
         IN  IF r.res.ok /\ r.res.opt = "some"
             THEN [res |-> Ok(r.res.val), k |-> r.k, handle |-> h1]
             ELSE IF r.res.ok
             THEN [res |-> Err(event_err("EIO")), k |-> r.k, handle |-> h1]
             ELSE [res |-> Err(event_err(r.res.err.errno)), k |-> r.k, handle |-> h1]

\* Stream for AsyncLineEventHandle: poll_next.  [res, k, handle]
\* poll_read_ready: ready when the cached readiness or the registration's
\* readiness stream has the read bit, else the task's waker is registered;
\* clear_read_ready: the cached bit is cleared and the wait armed again
poll_next(k, h) ==
    IF ~(h.cached \/ h.readiness)
    THEN [res |-> Pending, k |-> k, handle |-> [h EXCEPT !.waker = TRUE]]
    ELSE LET h1 == [h EXCEPT !.cached = TRUE, !.readiness = FALSE]
             r == read_event(k, h1)
         IN  IF r.res.ok /\ r.res.opt = "some"
             THEN [res |-> Ok(r.res.val), k |-> r.k, handle |-> h1]
             ELSE IF r.res.ok
             THEN [res |-> Err(event_err("EIO")), k |-> r.k, handle |-> h1]
             ELSE IF r.res.err.errno = "EAGAIN"
             THEN [res |-> Pending, k |-> r.k,
                   handle |-> [h1 EXCEPT !.cached = FALSE, !.waker = TRUE]]
             ELSE [res |-> Err(event_err(r.res.err.errno)), k |-> r.k, handle |-> h1]

\* an advance's outcome: ret keeps what the descriptor held when the
\* advance began: the number of chunks already read, the number queued,
\* whether the source was closed, whether the handle had readiness at
\* hand (cached or reported by its registration), and whether the source
\* was failing; with the next before it, when the advance is a next on the
\* handle of that one
EventOp(op, h, r, handle) ==
    /\ ~r.blocked
    /\ SetKernel(r.k)
    /\ handles' = [handles EXCEPT ![h] = handle]
    /\ LET now == Ret(op, h, <<Consumed(KState, handles[h].fd),
                               Len(KFd(KState, handles[h].fd).queue),
                               KFd(KState, handles[h].fd).eof,
                               handles[h].cached \/ handles[h].readiness,
                               KFd(KState, handles[h].fd).fail>>, r.res, FALSE, <<>>)
       IN  ret' = IF op = "next" /\ ret.slot = h THEN After(now, {"next"}) ELSE now
    /\ UNCHANGED <<chipLines, chipFile, arc, objs, badClose>>

\* on a LineEventHandle, or through AsyncLineEventHandle::as_ref
GetEvent(h) ==
    /\ handles[h].kind \in {"LineEventHandle", "AsyncLineEventHandle"}
    /\ EventOp("get_event", h, LineEventHandle_get_event(KState, handles[h]), handles[h])

IterNext(h) ==
    /\ handles[h].kind = "LineEventHandle"
    /\ EventOp("next", h, LineEventHandle_next(KState, handles[h]), handles[h])

PollNext(h) ==
    /\ handles[h].kind = "AsyncLineEventHandle"
    /\ LET r == poll_next(KState, handles[h])
       IN  EventOp("poll_next", h, [blocked |-> FALSE, res |-> r.res, k |-> r.k], r.handle)

\* a wrapper that leaves the descriptor's flags as they are
set_nonblocking_skip(k, fd) == k

\* fcntl(fd, F_SETFL, flags | O_NONBLOCK) on the handle's descriptor
set_nonblocking(k, fd) == [k EXCEPT !.fd[fd].nonblock = TRUE]

\* AsyncLineEventHandle::new: O_NONBLOCK is set on the descriptor, then
\* PollEvented::new registers it; when that fails the handle it was given
\* is dropped
AsyncNew(h, registered) ==
    /\ handles[h].kind = "LineEventHandle"
    /\ LET fd == handles[h].fd
           k1 == set_nonblocking(KState, fd)
       IN  IF registered
           THEN /\ handles' = AsyncLineEventHandle_new(handles, h, k1)
                /\ SetKernel(k1)
                /\ ret' = Ret("AsyncLineEventHandle::new", h, <<>>, Ok(fd), FALSE, <<>>)
                /\ UNCHANGED <<chipFile, arc, badClose>>
           ELSE /\ handles' = [handles EXCEPT ![h] = NoHandle]
                /\ SetKernel(File_drop(k1, fd))
                /\ badClose' = (badClose \/ ~KFd(k1, fd).open)
                            /\ ArcDrop(Len(handles[h].lines))
                /\ ret' = Ret("AsyncLineEventHandle::new", h, <<>>,
                              Err([NoErr EXCEPT !.kind = "Io"]), FALSE, <<>>)
    /\ UNCHANGED <<chipLines, objs>>

(***************************************************************************)
(* poll_next in two steps, as the reactor sees it: the read, and after a   *)
(* read that would block the call of clear_read_ready; a notification can  *)
(* arrive between the two.                                                 *)
(***************************************************************************)
\* a clear_read_ready that also discards the readiness the registration
\* has reported since the read
clear_read_ready_forget(h) ==
    [h EXCEPT !.cached = FALSE, !.readiness = FALSE, !.waker = TRUE, !.polling = FALSE]

\* PollEvented::clear_read_ready(cx, ready): the cached readiness is cleared
\* and the registration is polled again, which registers the task's waker;
\* readiness that was reported since the read is cached and the task is
\* woken at once (wake_by_ref)
clear_read_ready(h) ==
    IF h.readiness
    THEN [h EXCEPT !.cached = TRUE, !.readiness = FALSE, !.waker = FALSE, !.polling = FALSE]
    ELSE [h EXCEPT !.cached = FALSE, !.waker = TRUE, !.polling = FALSE]

\* poll_next up to the outcome of its read: as poll_next, but after a read
\* that failed with EAGAIN the call is still inside poll_next, before
\* clear_read_ready.  [res, k, handle]
poll_next_read(k, h) ==
    LET h1 == [h EXCEPT !.cached = TRUE, !.readiness = FALSE]
        r == read_event(k, h1)
    IN  IF (h.cached \/ h.readiness) /\ ~r.res.ok /\ r.res.err.errno = "EAGAIN"
        THEN [res |-> r.res, k |-> r.k, handle |-> [h1 EXCEPT !.polling = TRUE]]
        ELSE poll_next(k, h)

\* the task polls the stream: poll_next runs to its return, or to the read
\* that would block
PollRead(h) ==
    /\ handles[h].kind = "AsyncLineEventHandle" /\ ~handles[h].polling
    /\ LET r == poll_next_read(KState, handles[h])
       IN  EventOp(IF r.handle.polling THEN "read_event" ELSE "poll_next", h,
                   [blocked |-> FALSE, res |-> r.res, k |-> r.k], r.handle)

\* the rest of a poll_next whose read would block: clear_read_ready(cx,
\* ready)?, then Poll::Pending
PollClear(h) ==
    /\ handles[h].kind = "AsyncLineEventHandle" /\ handles[h].polling
    /\ handles' = [handles EXCEPT ![h] = clear_read_ready(handles[h])]
    /\ ret' = Ret("poll_next", h, ret.arg, Pending, FALSE, <<>>)
    /\ UNCHANGED <<chipLines, chipFile, arc, objs, kfd, holder, level, gone, badClose>>

\* the task that polls h can run: it is not suspended on the handle
Runnable(h) == handles[h].kind = "AsyncLineEventHandle" /\ ~handles[h].waker

(***************************************************************************)
(* The environment: the signal on an input line, and the source behind a   *)
(* (mocked) event descriptor.                                              *)
(***************************************************************************)
\* the reactor's notification for a descriptor that became readable: the
\* registration's readiness is set and the waiting task is woken
Notify(hs, fd) ==
    [h \in DOMAIN hs |->
        IF hs[h].kind = "AsyncLineEventHandle" /\ hs[h].fd = fd
        THEN [hs[h] EXCEPT !.readiness = TRUE, !.waker = FALSE]
        ELSE hs[h]]

Enqueue(k, fd, c) ==
    [k EXCEPT !.fd[fd].queue = Append(@, c), !.fd[fd].hist = Append(@, c)]

\* the level of a held input line changes; an event descriptor subscribed
\* to that edge queues a record, unless its queue is full
Edge(o) ==
    LET fd == holder[o]
        d == KFd(KState, fd)
        new == 1 - level[o]
        edge == IF new = 1 THEN RISING_EDGE ELSE FALLING_EDGE
        k1 == [KState EXCEPT !.level[o] = new]
        queues == d.kind = "event" /\ ~d.eof /\ HasBit(d.eflags, edge)
                     /\ Len(d.queue) < MaxQueue
    IN  /\ fd # 0
        /\ ~HasBit(d.flags, OUTPUT)
        /\ SetKernel(IF queues
                     THEN Enqueue(k1, fd, [n |-> EVENT_SIZE, ts |-> Len(d.hist) + 1,
                                           id |-> edge])
                     ELSE k1)
        /\ handles' = IF queues THEN Notify(handles, fd) ELSE handles
        /\ UNCHANGED <<chipLines, chipFile, arc, objs, badClose, ret>>

\* the source delivers fewer bytes than a record
SourceShort(fd, n) ==
    LET d == KFd(KState, fd)
    IN  /\ d.open /\ d.kind = "event" /\ ~d.eof
        /\ Len(d.queue) < MaxQueue
        /\ SetKernel(Enqueue(KState, fd, [n |-> n, ts |-> Len(d.hist) + 1, id |-> 1]))
        /\ handles' = Notify(handles, fd)
        /\ UNCHANGED <<chipLines, chipFile, arc, objs, badClose, ret>>

\* the source is closed: what is queued is still delivered, then reads
\* return 0 bytes
SourceClose(fd) ==
    LET d == KFd(KState, fd)
    IN  /\ d.open /\ d.kind = "event" /\ ~d.eof
        /\ SetKernel([KState EXCEPT !.fd[fd].eof = TRUE])
        /\ handles' = Notify(handles, fd)
        /\ UNCHANGED <<chipLines, chipFile, arc, objs, badClose, ret>>

\* the source behind the descriptor breaks: from now on every read of the
\* descriptor fails with ENODEV; the reactor reports the descriptor ready
SourceFail(fd) ==
    LET d == KFd(KState, fd)
    IN  /\ d.open /\ d.kind = "event" /\ ~d.eof /\ ~d.fail
        /\ SetKernel([KState EXCEPT !.fd[fd].fail = TRUE])
        /\ handles' = Notify(handles, fd)
        /\ UNCHANGED <<chipLines, chipFile, arc, objs, badClose, ret>>

\* the chip's device is removed (unbound or unplugged) while descriptors
\* on it are open
Unplug ==
    /\ ~gone
    /\ gone' = TRUE
    /\ UNCHANGED <<chipLines, chipFile, arc, objs, handles, kfd, holder, level, badClose,
                   ret>>

\* the number of records the source behind the descriptor holding line o
\* has delivered
Delivered(o) == Len(KFd(KState, holder[o]).hist)

(***************************************************************************)
(* The specifications.  Each starts from an opened chip.                   *)
(***************************************************************************)
\* GPIO_GET_CHIPINFO_IOCTL on the chip descriptor of a chip of n lines
KernelChipInfo(g, n) ==
    IF g THEN [ok |-> FALSE, errno |-> "ENODEV", lines |-> 0]
    ELSE [ok |-> TRUE, errno |-> "", lines |-> n]

\* what a byte of memory that was not initialized can hold
UninitBytes == {0, 255}

\* the gpiochip_info Chip::new hands to the ioctl: mem::uninitialized(),
\* every field holds what the memory held
ChipInfoRecord(junk) ==
    [name |-> [i \in 1..LABEL_LEN |-> junk], label |-> [i \in 1..LABEL_LEN |-> junk],
     lines |-> junk]

\* Chip::new, the device file opened: Ok when the chip info was read (the
\* value 0 stands for the Chip), else the ioctl's error
Chip_new(g, n) ==
    LET io == KernelChipInfo(g, n)
    IN  IF ~io.ok
        THEN Err(chain_err(ioctl_err("ChipInfo", io.errno), "Getting chip info failed"))
        ELSE Ok(0)

\* the state after Chip::new on a chip of n lines whose device is there
\* (g false) or was removed (g true): a failed Chip::new has dropped the
\* File it opened and leaves no Chip; ret keeps the record as the ioctl
\* was given it
ChipNew(g, n) ==
    LET res == Chip_new(g, n)
    IN  /\ chipLines = n
        /\ chipFile = IF res.ok THEN "open" ELSE "closed"
        /\ arc = IF res.ok THEN 1 ELSE 0
        /\ objs = IF res.ok THEN SetToBag({ChipObj}) ELSE EmptyBag
        /\ handles = [h \in HandleSlots |-> NoHandle]
        /\ kfd = [fd \in FdRange |-> ClosedFd]
        /\ holder = [o \in 0..(n - 1) |-> 0]
        /\ level = [o \in 0..(n - 1) |-> 0]
        /\ gone = g
        /\ badClose = FALSE
        /\ \E junk \in UninitBytes :
              ret = Ret("Chip::new", 0, <<ChipInfoRecord(junk)>>, res, FALSE, <<"ChipInfo">>)

InitChip(n) == ChipNew(FALSE, n)

\* the sequences over S of length 0..n
SeqsUpTo(S, n) == UNION {[1..m -> S] : m \in 0..n}

\* the sequences over S of length 1..n without a repeated element
DistinctSeqs(S, n) == {q \in SeqsUpTo(S, n) : q # <<>> /\ Distinct(q)}

Ones(n) == [i \in 1..n |-> 1]

(***************************************************************************)
(* Spec: ownership of lines and descriptors.  Every kind of value and      *)
(* handle on a chip of NumLines lines; the requests are well formed (they  *)
(* fail only for a line that is held), the values written are 1.           *)
(***************************************************************************)
Init == InitChip(NumLines)

Next ==
    \/ \E o \in 0..(chipLines - 1) : GetLine(o)
    \/ \E offsets \in DistinctSeqs(0..(chipLines - 1), MaxSetLen) : GetLines(offsets)
    \/ \E v \in Objs : LineClone(v) \/ ValueChip(v) \/ Info(v) \/ DropObj(v)
    \/ \E v \in Objs, f \in {INPUT, OUTPUT} : LineRequest(v, f, 1)
    \/ \E v \in Objs, f \in {INPUT, OUTPUT} : LinesRequest(v, f, Ones(Len(v.offsets)))
    \/ \E v \in Objs : LineEvents(v, INPUT, BOTH_EDGES)
    \/ \E h \in HandleSlots : GetValue(h) \/ GetValues(h) \/ EventGetValue(h)
    \/ \E h \in HandleSlots : SetValue(h, 1)
    \/ \E h \in HandleSlots : SetValues(h, Ones(Len(handles[h].lines)))
    \/ \E h \in HandleSlots : HandleLines(h) \/ DropHandle(h)
    \/ \E h \in HandleSlots, registered \in BOOLEAN : AsyncNew(h, registered)
    \/ \E h \in HandleSlots : GetEvent(h) \/ IterNext(h) \/ PollNext(h)
    \/ \E o \in 0..(chipLines - 1) : Delivered(o) < OwnEvents /\ Edge(o)

Spec == Init /\ [][Next]_vars

(***************************************************************************)
(* SpecCtor: construction of Line and Lines values, on chips whose line    *)
(* count lies on either side of GPIOHANDLES_MAX.                           *)
(***************************************************************************)
CtorSizes == {1, GPIOHANDLES_MAX - 1, GPIOHANDLES_MAX, GPIOHANDLES_MAX + 1}

CtorLens == {0, 1, GPIOHANDLES_MAX - 1, GPIOHANDLES_MAX, GPIOHANDLES_MAX + 1}

Zeros(n) == [i \in 1..n |-> 0]

InitCtor == \E n \in CtorSizes : InitChip(n)

NextCtor ==
    \/ \E o \in {0, chipLines - 1, chipLines, chipLines + 1} : GetLine(o)
    \/ \E n \in CtorLens : GetLines(Zeros(n))
    \/ \E n \in CtorLens : n <= chipLines /\ GetLines(RangeCollect(0, n))
    \/ GetLines(<<0, chipLines>>)
    \/ GetLines(<<0, 0>>)
    \/ \E a \in {0, 1}, b \in CtorLens \cup {GPIOHANDLES_MAX + 2} : GetRangeLines(a, b)
    \/ GetAllLines
    \/ \E v \in Objs : DropObj(v)

SpecCtor == InitCtor /\ [][NextCtor]_vars

(***************************************************************************)
(* SpecValues: requests for sets of lines and the values read and written  *)
(* through their handles, on a chip of ValLines lines.                     *)
(***************************************************************************)
InitValues == InitChip(ValLines)

FlagInputs == {INPUT, OUTPUT, INPUT + OUTPUT}

ValueInputs == SeqsUpTo({0, 1}, MaxSetLen)

NextValues ==
    \/ \E offsets \in DistinctSeqs(0..(chipLines - 1), MaxSetLen) : GetLines(offsets)
    \/ \E v \in Objs : DropObj(v)
    \/ \E v \in Objs, f \in FlagInputs, default \in ValueInputs : LinesRequest(v, f, default)
    \/ \E h \in HandleSlots : GetValues(h)
    \/ \E h \in HandleSlots, values \in ValueInputs : SetValues(h, values)
    \/ \E h \in HandleSlots : DropHandle(h)

SpecValues == InitValues /\ [][NextValues]_vars

(***************************************************************************)
(* SpecEvents: one line, its event handle (blocking or wrapped for tokio)  *)
(* and the source of its records.                                          *)
(***************************************************************************)
InitEvents == InitChip(1)

ShortInputs == {1, EVENT_SIZE - 1}

NextEvents ==
    \/ GetLine(0)
    \/ \E v \in Objs : DropObj(v)
    \/ \E v \in Objs, ef \in {RISING_EDGE, BOTH_EDGES} : LineEvents(v, INPUT, ef)
    \/ \E h \in HandleSlots, registered \in BOOLEAN : AsyncNew(h, registered)
    \/ \E h \in HandleSlots : GetEvent(h) \/ IterNext(h) \/ PollNext(h) \/ EventGetValue(h)
    \/ \E h \in HandleSlots : DropHandle(h)
    \/ Delivered(0) < MaxEvents /\ Edge(0)
    \/ \E fd \in FdRange, n \in ShortInputs :
          Len(KFd(KState, fd).hist) < MaxEvents /\ SourceShort(fd, n)
    \/ \E fd \in FdRange : SourceClose(fd)

SpecEvents == InitEvents /\ [][NextEvents]_vars

(***************************************************************************)
(* SpecLabel: requests for one line under consumer strings of every length *)
(* up to MaxLabel.                                                         *)
(***************************************************************************)
InitLabel == InitChip(1)

\* a string of n non-zero bytes
StrOf(n, c) == [i \in 1..n |-> ((i * c) % 250) + 1]

LabelInputs == {StrOf(n, c) : n \in 0..MaxLabel, c \in {1, 7}}

NextLabel ==
    \/ GetLine(0)
    \/ GetLines(<<0>>)
    \/ \E v \in Objs : DropObj(v)
    \/ \E v \in Objs, consumer \in LabelInputs : LineRequestAs(v, OUTPUT, 1, consumer)
    \/ \E v \in Objs, consumer \in LabelInputs : LinesRequestAs(v, INPUT, <<0>>, consumer)
    \/ \E v \in Objs, consumer \in LabelInputs :
          LineEventsAs(v, INPUT, BOTH_EDGES, consumer)
    \/ \E h \in HandleSlots : DropHandle(h)

SpecLabel == InitLabel /\ [][NextLabel]_vars

(***************************************************************************)
(* SpecFaults: every operation on a chip of one line whose device may be   *)
(* removed, before Chip::new or at any later point, and whose event source *)
(* may deliver short chunks and be closed.                                 *)
(***************************************************************************)
InitFaults == \E g \in BOOLEAN : ChipNew(g, 1)

NextFaults ==
    \/ GetLine(0)
    \/ GetLines(<<0>>)
    \/ \E v \in Objs : Info(v) \/ DropObj(v)
    \/ \E v \in Objs, f \in {INPUT, OUTPUT} : LineRequest(v, f, 1)
    \/ \E v \in Objs, f \in {INPUT, OUTPUT} : LinesRequest(v, f, <<1>>)
    \/ \E v \in Objs : LineEvents(v, INPUT, BOTH_EDGES)
    \/ \E h \in HandleSlots : GetValue(h) \/ GetValues(h) \/ EventGetValue(h)
    \/ \E h \in HandleSlots, value \in {0, 1} : SetValue(h, value)
    \/ \E h \in HandleSlots, values \in {<<>>, <<0>>, <<1>>} : SetValues(h, values)
    \/ \E h \in HandleSlots : AsyncNew(h, TRUE)
    \/ \E h \in HandleSlots : GetEvent(h) \/ IterNext(h) \/ PollNext(h)
    \/ \E h \in HandleSlots : DropHandle(h)
    \/ Delivered(0) < MaxEvents /\ Edge(0)
    \/ \E fd \in FdRange : Len(KFd(KState, fd).hist) < MaxEvents /\ SourceShort(fd, 1)
    \/ \E fd \in FdRange : SourceClose(fd)
    \/ Unplug

SpecFaults == InitFaults /\ [][NextFaults]_vars

(***************************************************************************)
(* SpecFrame: requests of every kind on a chip of NumLines lines, refused  *)
(* for each reason the model has: a held line, both directions asked for,  *)
(* an output event line, a wrong number of defaults, a removed device.     *)
(***************************************************************************)
InitFrame == InitChip(NumLines)

NextFrame ==
    \/ \E o \in 0..(chipLines - 1) : GetLine(o)
    \/ \E offsets \in DistinctSeqs(0..(chipLines - 1), MaxSetLen) : GetLines(offsets)
    \/ \E v \in Objs : DropObj(v)
    \/ \E v \in Objs, f \in FlagInputs : LineRequest(v, f, 1)
    \/ \E v \in Objs, f \in FlagInputs, default \in {<<1>>, <<0, 1>>} :
          LinesRequest(v, f, default)
    \/ \E v \in Objs, f \in {INPUT, OUTPUT} : LineEvents(v, f, BOTH_EDGES)
    \/ \E h \in HandleSlots : SetValue(h, 0)
    \/ \E h \in HandleSlots : DropHandle(h)
    \/ Unplug

SpecFrame == InitFrame /\ [][NextFrame]_vars

(***************************************************************************)
(* SpecLines: the values derived from a chip of 0 to NumLines lines: its   *)
(* iterators, Line and Lines values asked for at offsets inside and        *)
(* outside the chip, LineInfo values and handles.                          *)
(***************************************************************************)
InitLines == \E n \in 0..NumLines : InitChip(n)

NextLines ==
    \/ \E v \in Objs : ChipLines(v)
    \/ \E v \in Objs, keep \in BOOLEAN : IterAdvance(v, keep)
    \/ \E o \in 0..chipLines : GetLine(o)
    \/ \E offsets \in DistinctSeqs(0..chipLines, MaxSetLen) : GetLines(offsets)
    \/ \E a \in {0, 1}, b \in 0..(chipLines + 1) : GetRangeLines(a, b)
    \/ \E v \in Objs : LineClone(v) \/ ValueChip(v) \/ Info(v) \/ DropObj(v)
    \/ \E v \in Objs : LineRequest(v, INPUT, 0)
    \/ \E v \in Objs : LinesRequest(v, OUTPUT, Ones(Len(v.offsets)))
    \/ \E v \in Objs : LineEvents(v, INPUT, BOTH_EDGES)
    \/ \E h \in HandleSlots : HandleLines(h) \/ DropHandle(h)

SpecLines == InitLines /\ [][NextLines]_vars

(***************************************************************************)
(* SpecWake: one line, its event handle wrapped for tokio, and one task    *)
(* that polls the stream; a poll is the two steps PollRead and PollClear,  *)
(* and edges arrive at any moment.  The executor runs a task that was      *)
(* woken (or never suspended), and a poll_next that has begun returns:     *)
(* weak fairness of both steps.                                            *)
(***************************************************************************)
InitWake == InitChip(1)

\* the one task of the program is inside poll_next
InPoll == \E h \in HandleSlots : handles[h].polling

NextWake ==
    \/ ~InPoll /\ GetLine(0)
    \/ \E v \in Objs : ~InPoll /\ DropObj(v)
    \/ \E v \in Objs, ef \in {RISING_EDGE, BOTH_EDGES} :
          ~InPoll /\ LineEvents(v, INPUT, ef)
    \/ \E h \in HandleSlots : IterNext(h)
    \/ \E h \in HandleSlots : AsyncNew(h, TRUE)
    \/ \E h \in HandleSlots : PollRead(h)
    \/ \E h \in HandleSlots : PollClear(h)
    \/ Delivered(0) < MaxEvents /\ Edge(0)

FairPolling ==
    \A h \in HandleSlots :
        /\ WF_vars(Runnable(h) /\ PollRead(h))
        /\ WF_vars(PollClear(h))

SpecWake == InitWake /\ [][NextWake]_vars /\ FairPolling

(***************************************************************************)
(* SpecReadErr: one line, its event handle (blocking or wrapped for tokio) *)
(* and a source that delivers whole records and short chunks, can be       *)
(* closed, and whose reads can begin to fail.                              *)
(***************************************************************************)
InitReadErr == InitChip(1)

NextReadErr ==
    \/ GetLine(0)
    \/ \E v \in Objs : DropObj(v)
    \/ \E v \in Objs : LineEvents(v, INPUT, BOTH_EDGES)
    \/ \E h \in HandleSlots : AsyncNew(h, TRUE)
    \/ \E h \in HandleSlots : GetEvent(h) \/ IterNext(h) \/ PollNext(h)
    \/ \E h \in HandleSlots : DropHandle(h)
    \/ Delivered(0) < MaxEvents /\ Edge(0)
    \/ \E fd \in FdRange, n \in ShortInputs :
          Len(KFd(KState, fd).hist) < MaxEvents /\ SourceShort(fd, n)
    \/ \E fd \in FdRange : SourceClose(fd)
    \/ \E fd \in FdRange : SourceFail(fd)

SpecReadErr == InitReadErr /\ [][NextReadErr]_vars

(***************************************************************************)
(* SpecRecords: the records handed to the kernel: line-info queries,       *)
(* requests for one line and for sets of lines with their defaults and     *)
(* consumer strings, and values set through the handles.                   *)
(***************************************************************************)
InitRecords == InitChip(NumLines)

RecordLabels == {StrOf(n, 1) : n \in {0, LABEL_LEN - 1, LABEL_LEN}}

NextRecords ==
    \/ \E o \in 0..(chipLines - 1) : GetLine(o)
    \/ \E offsets \in DistinctSeqs(0..(chipLines - 1), MaxSetLen) : GetLines(offsets)
    \/ \E v \in Objs : Info(v) \/ DropObj(v)
    \/ \E v \in Objs, d \in {0, 1}, consumer \in RecordLabels :
          LineRequestAs(v, OUTPUT, d, consumer)
    \/ \E v \in Objs, default \in ValueInputs, consumer \in RecordLabels :
          Len(default) = Len(v.offsets) /\ LinesRequestAs(v, OUTPUT, default, consumer)
    \/ \E v \in Objs, consumer \in RecordLabels :
          LineEventsAs(v, INPUT, BOTH_EDGES, consumer)
    \/ \E h \in HandleSlots, value \in {0, 1} : SetValue(h, value)
    \/ \E h \in HandleSlots, values \in ValueInputs : SetValues(h, values)
    \/ \E h \in HandleSlots : DropHandle(h)

SpecRecords == InitRecords /\ [][NextRecords]_vars

(***************************************************************************)
(* Properties of Spec: ownership of lines and descriptors.                 *)
(***************************************************************************)
IsRequest(r) == r.op \in {"Line::request", "Lines::request", "Line::events"}

\* the live handles holding line o
HoldersOf(o) == {h \in HandleSlots : Live(h) /\ o \in Range(handles[h].lines)}

\* a request the kernel has no reason to refuse but the lines being held:
\* one direction, no offset twice, one default value per line
WellFormed(r) ==
    /\ Distinct(r.arg[1])
    /\ r.op = "Line::events" => ~HasBit(r.arg[2], OUTPUT)
    /\ r.op # "Line::events" => r.arg[2] \in {INPUT, OUTPUT} /\ Len(r.arg[3]) = Len(r.arg[1])

\* C1: no line has two live handles; a request naming a line that a live
\* handle holds fails with the ioctl's error; a well-formed request for lines
\* that no live handle holds (so also one made after the holder was dropped)
\* succeeds.
C1_OneHandlePerLine ==
    /\ \A o \in 0..(chipLines - 1) : Cardinality(HoldersOf(o)) <= 1
    /\ IsRequest(ret) /\ ret.busy => ~ret.res.ok /\ ret.res.err.kind = "Ioctl"
    /\ IsRequest(ret) /\ ~ret.busy /\ WellFormed(ret) => ret.res.ok

\* a request for a line succeeded right after the drop of the handle that
\* held the line
C1_RequestedAgain ==
    /\ IsRequest(ret) /\ ret.res.ok
    /\ ret.prev.op = "drop_handle" /\ Range(ret.prev.arg) \cap Range(ret.arg[1]) # {}
    /\ Live(ret.slot) /\ HoldersOf(handles[ret.slot].lines[1]) = {ret.slot}

\* every line of a live handle is granted to the handle's open descriptor
GrantHeld ==
    \A h \in HandleSlots :
        Live(h) => /\ KFd(KState, handles[h].fd).open
                   /\ \A o \in Range(handles[h].lines) : holder[o] = handles[h].fd

\* a granted line has a live handle owning the descriptor it is granted to
GrantOwned ==
    \A o \in 0..(chipLines - 1) :
        holder[o] # 0 => \E h \in HoldersOf(o) : handles[h].fd = holder[o]

\* a step that takes a grant away is the drop of the handle that owns the
\* descriptor (AsyncLineEventHandle::new drops the handle it was given when
\* the registration fails)
OnlyDropReleases ==
    \A o \in 0..(chipLines - 1) :
        holder[o] # 0 /\ holder'[o] # holder[o]
            => /\ ret'.op \in {"drop_handle", "AsyncLineEventHandle::new"}
               /\ \E h \in HandleSlots : /\ handles[h].fd = holder[o]
                                         /\ handles'[h].kind = "none"
                                         /\ ret'.slot = h

\* C2: a granted line stays granted while the handle owning its descriptor
\* lives and is released when that handle is dropped; no step but the drop
\* of that handle takes the grant away.
C2_GrantedUntilDrop == [](GrantHeld /\ GrantOwned) /\ [][OnlyDropReleases]_vars

\* an event was read through a handle and the handle's line is still
\* granted to its descriptor
C2_ReadKeepsGrant ==
    /\ ret.op = "get_event" /\ ret.res.ok
    /\ Live(ret.slot)
    /\ holder[handles[ret.slot].lines[1]] = handles[ret.slot].fd

\* the live handles owning descriptor fd
OwnersOf(fd) == {h \in HandleSlots : Live(h) /\ handles[h].fd = fd}

\* C3: every open descriptor the kernel granted has exactly one owning
\* handle, no handle owns a closed descriptor, and no descriptor is closed
\* twice.
C3_OneOwner ==
    /\ \A fd \in FdRange : kfd[fd].open => Cardinality(OwnersOf(fd)) = 1
    /\ \A h \in HandleSlots : Live(h) => KFd(KState, handles[h].fd).open
    /\ ~badClose

\* an event handle was wrapped for tokio while a clone of its line exists:
\* the wrapper is the one owner of the descriptor
C3_WrappedOwner ==
    /\ ret.op = "AsyncLineEventHandle::new" /\ ret.res.ok
    /\ handles[ret.slot].kind = "AsyncLineEventHandle"
    /\ OwnersOf(handles[ret.slot].fd) = {ret.slot}
    /\ LineObj(handles[ret.slot].lines[1]) \in Objs

(***************************************************************************)
(* Properties of SpecCtor: construction of Line and Lines values.          *)
(***************************************************************************)
\* C4: get_line(o) gives a Line of offset o when o is below the chip's line
\* count; otherwise it gives no Line and fails with the Offset error that
\* carries o.
C4_OffsetError ==
    ret.op = "get_line" =>
        IF ret.arg < chipLines
        THEN ret.res.ok /\ ret.res.val = ret.arg /\ LineObj(ret.arg) \in Objs
        ELSE ~ret.res.ok /\ ret.res.err = offset_err(ret.arg)

IsSetCtor(r) == r.op \in {"get_lines", "get_range_lines", "get_all_lines"}

\* the offsets a line set constructor was asked for
Asked(r) ==
    IF r.op = "get_lines" THEN r.arg
    ELSE IF r.op = "get_range_lines" THEN RangeCollect(r.arg[1], r.arg[2])
    ELSE RangeCollect(0, chipLines)

\* C9: a line set constructor fails for no offset and for more than 64
\* offsets, and gives the set of exactly those offsets, in order, for 64
\* offsets that are all below the chip's line count; get_all_lines fails on
\* a chip of more than 64 lines.
C9_SetSize ==
    /\ IsSetCtor(ret) /\ (Len(Asked(ret)) = 0 \/ Len(Asked(ret)) > 64) => ~ret.res.ok
    /\ IsSetCtor(ret) /\ Len(Asked(ret)) = 64
          /\ (\A i \in 1..64 : Asked(ret)[i] < chipLines)
          => ret.res.ok /\ ret.res.val = Asked(ret) /\ LinesObj(Asked(ret)) \in Objs
    /\ ret.op = "get_all_lines" /\ chipLines > 64 => ~ret.res.ok

\* get_all_lines gave the 64 lines of a chip of 64 lines
C9_AllOf64 ==
    /\ ret.op = "get_all_lines" /\ chipLines = 64
    /\ ret.res.ok /\ Len(ret.res.val) = 64
    /\ LinesObj(RangeCollect(0, 64)) \in Objs

(***************************************************************************)
(* Properties of SpecValues: requests for sets of lines, and their values. *)
(***************************************************************************)
\* C5: a Lines::request with a number of default values other than the
\* number of lines fails with InvalidRequest carrying both numbers, issues
\* no ioctl and leaves every grant as it was.
C5_RequestMismatch ==
    [][\A v \in Objs, f \in FlagInputs, d \in ValueInputs :
          LinesRequest(v, f, d) /\ Len(d) # Len(v.offsets)
              => /\ ret'.res = Err(invalid_err(Len(v.offsets), Len(d)))
                 /\ ret'.ioctls = <<>>
                 /\ holder' = holder /\ kfd' = kfd /\ handles' = handles]_vars

\* C6: a set_values with a number of values other than the handle's
\* num_lines fails with InvalidRequest, issues no ioctl and leaves the level
\* of every line as it was.
C6_SetMismatch ==
    [][\A h \in HandleSlots, values \in ValueInputs :
          SetValues(h, values) /\ Len(values) # num_lines(handles[h])
              => /\ ~ret'.res.ok /\ ret'.res.err.kind = "InvalidRequest"
                 /\ ret'.ioctls = <<>>
                 /\ level' = level]_vars

\* a get_values on the handle that the operation just before it, one of
\* ops, was called on (set_values) or built (Lines::request), that
\* operation having succeeded
ReadsBackAfter(ops) ==
    /\ ret.op = "get_values"
    /\ ret.prev.op \in ops /\ ret.prev.ok /\ ret.prev.slot = ret.slot

\* C7: get_values called right after a successful set_values(v) on the same
\* handle returns v, value i being the one written for the i-th line of the
\* request.
C7_SetThenGet ==
    ReadsBackAfter({"set_values"}) => ret.res.ok /\ ret.res.val = ret.prev.arg

\* values <<1, 0>> were written to a handle whose lines are not in the
\* chip's order, and read back
C7_ReadBackUnsorted ==
    /\ ReadsBackAfter({"set_values"})
    /\ ret.prev.arg = <<1, 0>> /\ ret.res.val = <<1, 0>>
    /\ handles[ret.slot].lines[1] > handles[ret.slot].lines[2]

\* C8: get_values called right after a successful Lines::request with
\* OUTPUT and default values d returns d, value i being the default of the
\* i-th offset listed.
C8_DefaultsReadBack ==
    ReadsBackAfter({"Lines::request"}) /\ HasBit(ret.prev.arg[2], OUTPUT)
        => ret.res.ok /\ ret.res.val = ret.prev.arg[3]

\* lines <<2, 0>> were requested as outputs with defaults <<1, 0>>, and
\* <<1, 0>> was read back
C8_DefaultsInCallerOrder ==
    /\ ReadsBackAfter({"Lines::request"})
    /\ ret.prev.arg = <<<<2, 0>>, OUTPUT, <<1, 0>>>>
    /\ ret.res.val = <<1, 0>>

(***************************************************************************)
(* Properties of SpecEvents: the records read through an event handle.     *)
(***************************************************************************)
\* the source behind the descriptor delivered whole records only
WellFormedSource(fd) ==
    \A i \in 1..Len(kfd[fd].hist) : kfd[fd].hist[i].n = EVENT_SIZE

\* the LineEvent of the record delivered i-th
EventAt(fd, i) == [timestamp |-> kfd[fd].hist[i].ts, id |-> kfd[fd].hist[i].id]

\* C10: over a source of whole records, an advance of the blocking iterator
\* or of the stream made when a record is queued yields that record, the
\* next in the order of delivery, and its event_type is RisingEdge exactly
\* when its id is 1; an advance made when every record was read and the
\* source is closed ends the sequence, with no item.
C10_RoundTrip ==
    ret.op \in {"next", "poll_next"} /\ Live(ret.slot)
        /\ WellFormedSource(handles[ret.slot].fd)
    => LET fd == handles[ret.slot].fd
           next == ret.arg[1] + 1
       IN  /\ ret.arg[2] > 0
                 => /\ ret.res.ok /\ ret.res.opt = "some"
                    /\ ret.res.val = EventAt(fd, next)
                    /\ event_type(ret.res.val) = "RisingEdge" <=> kfd[fd].hist[next].id = 1
           /\ ret.arg[2] = 0 /\ ret.arg[3] => ret.res = None

IsAdvance(r) == r.op \in {"get_event", "next", "poll_next"}

\* the chunk an advance found at the head of the queue when it began
ChunkRead(r) == kfd[handles[r.slot].fd].hist[r.arg[1] + 1]

\* C11: a read that returns more than 0 and fewer than EVENT_SIZE bytes, in
\* get_event, in the iterator's next and in poll_next, is reported as one
\* error item of I/O class and gives no LineEvent.
C11_ShortRead ==
    IsAdvance(ret) /\ Live(ret.slot) /\ ret.arg[2] > 0
        /\ ChunkRead(ret).n > 0 /\ ChunkRead(ret).n < EVENT_SIZE
    => /\ ~ret.res.ok /\ ret.res.opt = "some"
       /\ ret.res.err.errno = "EIO"
       /\ Consumed(KState, handles[ret.slot].fd) = ret.arg[1] + 1

\* C12: an advance of the iterator or of the stream that takes a whole
\* record from the descriptor yields that record, and an advance that yields
\* a LineEvent has taken exactly one record from the descriptor, the next in
\* the order of delivery: the k-th LineEvent is the k-th record delivered.
C12_InOrder ==
    ret.op \in {"next", "poll_next"} /\ Live(ret.slot)
    => LET fd == handles[ret.slot].fd
           taken == Consumed(KState, fd) - ret.arg[1]
           yields == ret.res.ok /\ ret.res.opt = "some"
       IN  /\ taken \in {0, 1}
           /\ yields => taken = 1 /\ ret.res.val = EventAt(fd, ret.arg[1] + 1)
           /\ taken = 1 /\ ChunkRead(ret).n = EVENT_SIZE
                 => yields /\ ret.res.val = EventAt(fd, ret.arg[1] + 1)

\* the stream yielded the second record delivered, as its second record,
\* while the kernel had already queued it before the first was read
C12_SecondOfTwo ==
    /\ ret.op = "poll_next" /\ Live(ret.slot)
    /\ ret.arg[1] = 1 /\ WellFormedSource(handles[ret.slot].fd)
    /\ ret.res.ok /\ ret.res.opt = "some"
    /\ ret.res.val = EventAt(handles[ret.slot].fd, 2)
    /\ ret.res.val.timestamp = 2

\* the task polling the stream is suspended on the handle: poll_next
\* returned Pending and no notification came since
Suspended(h) == handles[h].kind = "AsyncLineEventHandle" /\ handles[h].waker

\* a waker, a readiness or a cached readiness belongs to a live adaptor
\* whose descriptor is open
RegisteredIsLive ==
    \A h \in HandleSlots :
        handles[h].waker \/ handles[h].readiness \/ handles[h].cached
            => /\ handles[h].kind = "AsyncLineEventHandle"
               /\ KFd(KState, handles[h].fd).open

\* the drop of a suspended adaptor closes its descriptor, frees its line,
\* leaves nothing registered for the descriptor, and a request for the line
\* made next is granted
DropCancels ==
    \A h \in HandleSlots :
        Suspended(h) /\ DropHandle(h)
            => /\ ~kfd'[handles[h].fd].open
               /\ holder'[handles[h].lines[1]] = 0
               /\ ~handles'[h].waker /\ ~handles'[h].readiness
               /\ \A g \in HandleSlots : handles'[g].fd # handles[h].fd
               /\ chipFile' = "open"
                     => Line_events([fd |-> kfd', holder |-> holder', level |-> level',
                                     gone |-> gone'],
                                     handles[h].lines[1], INPUT, BOTH_EDGES).res.ok

\* C13: dropping an AsyncLineEventHandle whose poll_next returned Pending
\* removes its registration and closes its descriptor: nothing is left to
\* wake the task, and the line can be requested again.
C13_CancelReleases == []RegisteredIsLive /\ [][DropCancels]_vars

\* a suspended adaptor was dropped and its line is free
C13_DroppedWhilePending ==
    /\ ret.op = "drop_handle" /\ ret.prev.op = "poll_next"
    /\ ret.prev.arg[2] = 0 /\ ~ret.prev.arg[3]
    /\ ~Live(ret.slot)
    /\ holder[ret.arg[1]] = 0

(***************************************************************************)
(* Properties of SpecLabel: the consumer label of a request.               *)
(***************************************************************************)
\* a request made with a consumer string
IsLabelled(r) == IsRequest(r) /\ Len(r.arg) = 5

\* the fields that follow consumer_label in the request of r
TailOf(r) ==
    IF r.op = "Line::events" THEN Le32(0) ELSE Le32(Len(r.arg[1])) \o Le32(0)

\* C14: the consumer label of a request holds the first min(len(s), 31)
\* bytes of the consumer string s and then a zero byte; the bytes after the
\* 32 of the label are as they were; the request is issued to the kernel
\* whatever the length of s, and granted when the line is free.
C14_LabelTruncated ==
    IsLabelled(ret)
    => LET s == ret.arg[4]
           m == ret.arg[5]
           n == Min2(Len(s), 31)
       IN  /\ \A i \in 1..n : m[i] = s[i]
           /\ m[n + 1] = 0
           /\ Len(m) = 32 + Len(TailOf(ret))
           /\ \A i \in 1..Len(TailOf(ret)) : m[32 + i] = TailOf(ret)[i]
           /\ ret.ioctls # <<>>
           /\ ~ret.busy => ret.res.ok

\* a request with a consumer string of 40 bytes was granted, its label
\* holding the first 31 bytes
C14_LongLabelGranted ==
    /\ IsLabelled(ret) /\ ret.res.ok /\ ret.op = "Line::request"
    /\ Len(ret.arg[4]) = 40
    /\ ret.arg[5][31] = ret.arg[4][31] /\ ret.arg[5][32] = 0
    /\ Live(ret.slot)

(***************************************************************************)
(* Properties of SpecFaults: failures of the ioctls and of the reads.      *)
(***************************************************************************)
\* the kind of ioctl each operation issues
TagOf(op) ==
    CASE op = "Chip::new" -> "ChipInfo"
      [] op = "info" -> "LineInfo"
      [] op \in {"Line::request", "Lines::request"} -> "LineHandle"
      [] op = "Line::events" -> "LineEvent"
      [] op \in {"get_value", "get_values", "LineEventHandle::get_value"} -> "GetLine"
      [] op \in {"set_value", "set_values"} -> "SetLine"
      [] OTHER -> ""

OsErrors == {"EBADF", "EBUSY", "EINVAL", "EMFILE", "ENODEV", "EPERM"}

FailedOn(h) ==
    /\ \/ GetValue(h) \/ GetValues(h) \/ EventGetValue(h)
       \/ \E value \in {0, 1} : SetValue(h, value)
       \/ \E values \in {<<>>, <<0>>, <<1>>} : SetValues(h, values)
       \/ GetEvent(h) \/ IterNext(h) \/ PollNext(h)
    /\ ~ret'.res.ok

\* the handle in slot h is the same handle after the step: same lines, same
\* flags, same descriptor, still open, its lines still granted to it
StillOwned(h) ==
    /\ handles'[h].kind = handles[h].kind /\ handles'[h].fd = handles[h].fd
    /\ handles'[h].lines = handles[h].lines /\ handles'[h].flags = handles[h].flags
    /\ kfd'[handles[h].fd].open
    /\ \A g \in HandleSlots \ {h} : handles'[g] = handles[g]
    /\ holder' = holder /\ level' = level
    /\ Len(ret'.ioctls) <= 1

\* the failed call took nothing from the descriptor's queue or, when what
\* it read was a short chunk, that chunk alone
TookShortChunkAtMost(h) ==
    LET d == kfd[handles[h].fd]
    IN  \/ kfd' = kfd
        \/ /\ d.queue # <<>> /\ Head(d.queue).n # EVENT_SIZE
           /\ kfd' = [kfd EXCEPT ![handles[h].fd].queue = Tail(d.queue)]

\* C16 as stated: a failed operation on a handle leaves the handle and
\* everything the kernel holds for it as they were, so that a later call
\* finds what it would have found without the failed one.
C16_FailedChangesNothing ==
    [][\A h \in HandleSlots : FailedOn(h) => StillOwned(h) /\ kfd' = kfd]_vars

\* C16: a failed operation on a handle leaves the handle, its open
\* descriptor, the grants and the levels as they were, issues one ioctl or
\* one read at most, and takes nothing from the descriptor but the short
\* chunk whose read it reports as failed.
C16_FailedKeepsHandle ==
    [][\A h \in HandleSlots : FailedOn(h) => StillOwned(h) /\ TookShortChunkAtMost(h)]_vars

\* a get_event failed on a short chunk; the handle is live, its descriptor
\* open, its line granted, and the whole record queued behind the chunk is
\* there for the next call
C16_NextRecordWaiting ==
    /\ ret.op = "get_event" /\ ~ret.res.ok /\ Live(ret.slot)
    /\ ret.arg[2] = 2 /\ ChunkRead(ret).n < EVENT_SIZE
    /\ LET d == kfd[handles[ret.slot].fd]
       IN  /\ d.open /\ holder[handles[ret.slot].lines[1]] = handles[ret.slot].fd
           /\ Len(d.queue) = 1 /\ Head(d.queue).n = EVENT_SIZE

(***************************************************************************)
(* Properties of SpecFrame: what a refused request leaves alone.           *)
(***************************************************************************)
\* the step is a request that failed.  Every operation writes ret and the
\* environment leaves it alone, so a step to a ret that differs and holds a
\* failed request is that request
FailedRequest == ret' # ret /\ IsRequest(ret') /\ ~ret'.res.ok

\* the kernel state after the step
KStateAfter == [fd |-> kfd', holder |-> holder', level |-> level', gone |-> gone']

\* C17: a failed Line::request, Lines::request or Line::events leaves every
\* grant, every level, every descriptor, every handle and the Chip (its
\* descriptor open, its line count, the values derived from it) as they
\* were; a request made next for a line that is free is granted as it would
\* have been before.
C17_FailedRequestFrame ==
    [][FailedRequest
         => /\ holder' = holder /\ level' = level /\ kfd' = kfd
            /\ handles' = handles
            /\ chipFile' = "open" /\ chipFile = "open"
            /\ chipLines' = chipLines /\ arc' = arc /\ objs' = objs
            /\ \A o \in 0..(chipLines - 1) :
                  Line_request(KStateAfter, o, INPUT, 1).res.ok
                      = Line_request(KState, o, INPUT, 1).res.ok
            /\ \A o \in 0..(chipLines - 1) :
                  holder'[o] = 0 /\ ~gone' => Line_request(KStateAfter, o, INPUT, 1).res.ok]_vars

\* a request naming line 0, which is held, failed; the holder of line 0
\* still has it, line 1 is free, and a request for line 1 would be granted
C17_OtherLineFree ==
    /\ IsRequest(ret) /\ ~ret.res.ok /\ ret.busy /\ 0 \in Range(ret.arg[1])
    /\ \E h \in HandleSlots : Live(h) /\ holder[0] = handles[h].fd
    /\ holder[1] = 0
    /\ Line_request(KState, 1, INPUT, 1).res.ok

(***************************************************************************)
(* Properties of SpecLines: the values derived from a chip.                *)
(***************************************************************************)
\* C18: an iterator made by Chip::lines starts with nothing yielded; its
\* k-th advance yields the Line of offset k - 1 while k is at most the line
\* count, and None ever after; no advance panics; what one iterator has
\* yielded does not depend on any other.
C18_LinesInOrder ==
    /\ \A it \in Iters : /\ Len(it.seen) <= chipLines
                          /\ it.seen = RangeCollect(0, Len(it.seen))
    /\ ret.op = "lines" => \E it \in Iters : it.seen = <<>>
    /\ ret.op = "LineIterator::next"
          => /\ ret.res.err.kind # "panic"
             /\ IF Len(ret.arg) < chipLines
                THEN ret.res.ok /\ ret.res.opt = "some" /\ ret.res.val = Len(ret.arg)
                ELSE ret.res.opt = "none"

\* on a chip of 2 lines an iterator that had yielded both lines gave None
\* while a second iterator, made later, had yielded line 0 only
C18_SecondIterator ==
    /\ chipLines = 2
    /\ ret.op = "LineIterator::next" /\ ret.res.opt = "none" /\ ret.arg = <<0, 1>>
    /\ \E it \in Iters : it.seen = <<0>>

\* a value derived from the chip is alive: a Chip, Line, Lines, LineInfo or
\* LineIterator value, or a handle (it holds its Line or Lines)
Derived == Objs # {} \/ \E h \in HandleSlots : Live(h)

\* the chip's descriptor is open exactly while a derived value is alive
OpenWhileDerived == (chipFile = "open") <=> Derived

\* the descriptor, once closed, stays closed, and the step that closes it
\* is the drop of the last derived value
ClosedOnce ==
    /\ chipFile = "closed" => chipFile' = "closed"
    /\ chipFile = "open" /\ chipFile' = "closed" => Derived /\ ~Derived'

\* C19: the chip's descriptor stays open while any value derived from the
\* chip is alive, also after the Chip value itself was dropped, and is
\* closed once, by the drop of the last such value.
C19_ChipOpenWhileUsed == []OpenWhileDerived /\ [][ClosedOnce]_vars

\* nothing of the chip is left but a handle, and the chip's descriptor is
\* open
C19_HandleKeepsChip ==
    /\ Objs = {} /\ \E h \in HandleSlots : Live(h)
    /\ chipFile = "open" /\ arc > 0

\* every Line there is, standalone, in a Lines set, in a LineInfo or in a
\* handle, has an offset below the chip's line count
LinesOnChip ==
    /\ \A v \in Objs : \A i \in 1..Len(v.offsets) : v.offsets[i] < chipLines
    /\ \A h \in HandleSlots : \A i \in 1..Len(handles[h].lines) :
          handles[h].lines[i] < chipLines

\* a line set constructor asked for an offset the chip does not have has
\* failed; a request names lines of the chip only, and the kernel never
\* had to refuse one for its offsets
NoForeignOffset ==
    /\ IsSetCtor(ret) /\ (\E i \in 1..Len(Asked(ret)) : Asked(ret)[i] >= chipLines)
          => ~ret.res.ok
    /\ IsRequest(ret)
          => /\ \A i \in 1..Len(ret.arg[1]) : ret.arg[1][i] < chipLines
             /\ ret.res.err.errno # "EINVAL"

\* a step that is a failed constructor adds no value
FailedCtorAddsNothing ==
    ret' # ret /\ ret'.op \in {"get_line", "get_lines", "get_range_lines", "get_all_lines"}
        /\ ~ret'.res.ok
    => objs' = objs /\ arc' = arc

\* C20: every Line value has an offset below its chip's line count;
\* get_lines and get_range_lines asked for an offset at or above it fail as
\* a whole and leave no partial set, so no request record carries an offset
\* the chip does not have.
C20_OffsetsOnChip == [](LinesOnChip /\ NoForeignOffset) /\ [][FailedCtorAddsNothing]_vars

\* get_lines for offset 0 and, after it, the offset one past the chip's
\* last line failed, and no Lines value exists
C20_NoPartialSet ==
    /\ chipLines = 2
    /\ ret.op = "get_lines" /\ ret.arg = <<0, 2>> /\ ~ret.res.ok
    /\ \A v \in Objs : v.type # "Lines"

(***************************************************************************)
(* Properties of SpecEvents: the asynchronous adaptor.                     *)
(***************************************************************************)
\* the read of a poll_next on h would block: readiness is at hand, nothing
\* is queued and the source is not closed
SpuriousWake(h) ==
    /\ handles[h].kind = "AsyncLineEventHandle"
    /\ handles[h].cached \/ handles[h].readiness
    /\ kfd[handles[h].fd].queue = <<>> /\ ~kfd[handles[h].fd].eof

\* a poll_next whose read would block returns Pending, with the readiness
\* cleared and the task's waker registered, and takes nothing
PendingOnWouldBlock ==
    \A h \in HandleSlots :
        SpuriousWake(h) /\ PollNext(h)
            => /\ ret'.res.opt = "pending" /\ ret'.res.ok
               /\ ~handles'[h].cached /\ ~handles'[h].readiness /\ handles'[h].waker
               /\ kfd' = kfd

\* a poll_next made with a whole record queued yields it (so also the one
\* made after a would-block read)
YieldsWhenQueued ==
    ret.op = "poll_next" /\ Live(ret.slot) /\ ret.arg[2] > 0
        /\ ChunkRead(ret).n = EVENT_SIZE
    => /\ ret.res.ok /\ ret.res.opt = "some"
       /\ ret.res.val = EventAt(handles[ret.slot].fd, ret.arg[1] + 1)

NeverSuspendedOnQueued ==
    \A h \in HandleSlots :
        handles[h].kind = "AsyncLineEventHandle" /\ ~handles[h].polling
            /\ kfd[handles[h].fd].queue # <<>>
        => ~handles[h].waker /\ (handles[h].cached \/ handles[h].readiness)

\* a step of poll_next that returns Pending leaves the waker registered,
\* or has woken the task already
PendingIsRegistered ==
    \A h \in HandleSlots :
        ret'.op = "poll_next" /\ ret'.res.opt = "pending" /\ (PollRead(h) \/ PollClear(h))
            => handles'[h].waker \/ handles'[h].cached

\* the i-th record delivered to the adaptor's descriptor is eventually
\* yielded
EventuallyYielded ==
    \A h \in HandleSlots : \A i \in 1..MaxEvents :
        (handles[h].kind = "AsyncLineEventHandle"
            /\ Len(kfd[handles[h].fd].hist) >= i)
        ~> (handles[h].kind = "AsyncLineEventHandle"
            /\ Consumed(KState, handles[h].fd) >= i)

\* C22: no wake-up is lost: a poll_next that returns Pending has a
\* notification registered for its task, and under every interleaving of
\* the arrival of records with poll_next (between the failed read and the
\* re-arming included) a queued record is eventually yielded to the task
\* that polls when woken.
C22_NoLostWakeup ==
    /\ []NeverSuspendedOnQueued
    /\ [][PendingIsRegistered]_vars
    /\ EventuallyYielded

\* a record arrived between the read that would block and the re-arming:
\* poll_next returned Pending, the record is queued and the task is awake
C22_ArrivedWhileClearing ==
    /\ ret.op = "poll_next" /\ ret.res.opt = "pending"
    /\ ret.arg[4] /\ ret.arg[2] = 0
    /\ Live(ret.slot) /\ ~handles[ret.slot].waker /\ handles[ret.slot].cached
    /\ ~handles[ret.slot].readiness
    /\ kfd[handles[ret.slot].fd].queue # <<>>

(***************************************************************************)
(* Properties of SpecReadErr: reads that fail.                             *)
(***************************************************************************)
\* poll_next's read failed with an error other than EAGAIN and the error
\* item for it was yielded
ReadErrorItem(r) ==
    /\ r.op = "poll_next" /\ ~r.res.ok
    /\ r.res.err.kind = "Event" /\ r.res.err.errno = "ENODEV"

\* C23: in the asynchronous adaptor a read failure other than would-block
\* yields one error item and completes the sequence: the advance made
\* after the error item produces no item (it returns the end of the
\* sequence).
C23_ErrorCompletes ==
    [][\A h \in HandleSlots :
          ReadErrorItem(ret) /\ ret.slot = h /\ PollNext(h)
              => ret'.res.ok /\ ret'.res.opt = "none"]_vars

(***************************************************************************)
(* Properties of SpecRecords: the records handed to the kernel.            *)
(***************************************************************************)
\* every entry of the array a after the first n is 0
ZeroFrom(a, n) == \A i \in (n + 1)..Len(a) : a[i] = 0

\* the request memory m from consumer_label on: the label's bytes after
\* the text copied from s are 0, and so are the bytes of the fd field
LabelZeroed(m, s, tail) ==
    /\ \A i \in (Min2(Len(s), LABEL_LEN - 1) + 1)..LABEL_LEN : m[i] = 0
    /\ \A i \in 1..4 : m[LABEL_LEN + Len(tail) - 4 + i] = 0

\* the gpiohandle_request of the request r for n lines
HandleRequestZeroed(r, req, n) ==
    /\ req.lines = n /\ req.fd = 0
    /\ ZeroFrom(req.lineoffsets, n) /\ ZeroFrom(req.default_values, n)
    /\ \A i \in 1..n : req.lineoffsets[i] = r.arg[1][i] /\ req.default_values[i] = r.arg[3][i]
    /\ LabelZeroed(r.arg[5], r.arg[4], TailOf(r))

\* the records of the handle requests, of the line-info query and of
\* set_values: a handle request for n lines has offsets and default values
\* 0 from index n on, label bytes 0 after the copied text and descriptor
\* field 0; a line-info query has flags, name and consumer 0; a set-values
\* record has values 0 from index n on
ListedRecordsZeroed ==
    /\ ret.op = "Lines::request" /\ Len(ret.arg[3]) = Len(ret.arg[1])
          => HandleRequestZeroed(ret, LinesRequestRecord(ret.arg[1], ret.arg[2], ret.arg[3]),
                                 Len(ret.arg[1]))
    /\ ret.op = "Line::request"
          => HandleRequestZeroed(ret, LineRequestRecord(ret.arg[1][1], ret.arg[2],
                                                        ret.arg[3][1]), 1)
    /\ ret.op = "Line::events" => LabelZeroed(ret.arg[5], ret.arg[4], TailOf(ret))
    /\ ret.op = "info"
          => LET q == LineInfoRecord(ret.arg[1])
             IN  /\ q.line_offset = ret.arg[1] /\ q.flags = 0
                 /\ ZeroFrom(q.name, 0) /\ ZeroFrom(q.consumer, 0)
                 /\ Len(q.name) = LABEL_LEN /\ Len(q.consumer) = LABEL_LEN
    /\ ret.op = "set_values" /\ ret.ioctls # <<>>
          => LET n == num_lines(handles[ret.slot])
                 data == SetValuesRecord(ret.arg, n)
             IN  /\ ZeroFrom(data.values, n)
                 /\ \A i \in 1..n : data.values[i] = ret.arg[i]

\* the record of the chip-info query, of which the request uses no field
ChipInfoZeroed ==
    ret.op = "Chip::new"
        => LET q == ret.arg[1]
           IN  ZeroFrom(q.name, 0) /\ ZeroFrom(q.label, 0) /\ q.lines = 0

\* C24: every request record handed to the kernel has all its unused
\* fields zero: the handle requests, the line-info query and the
\* set-values record as listed above, and with them every other record an
\* ioctl is given.
C24_UnusedFieldsZero == ListedRecordsZeroed /\ ChipInfoZeroed

(***************************************************************************)
(* Properties of SpecCtor: the order of a set and repeated offsets.        *)
(***************************************************************************)
\* C25: a line set keeps its lines in the order the caller gave (the i-th
\* line has the i-th offset passed, the length is the number of offsets
\* passed), and a set constructed from offsets that name one offset more
\* than once fails at construction.
C25_OrderedNoDuplicates ==
    ret.op = "get_lines"
    => /\ ret.res.ok
            => /\ Len(ret.res.val) = Len(ret.arg)
               /\ \A i \in 1..Len(ret.arg) : ret.res.val[i] = ret.arg[i]
               /\ LinesObj(ret.arg) \in Objs
       /\ ~Distinct(ret.arg) => ~ret.res.ok

\* the part of C25 on order and length
C25_OrderKept ==
    ret.op = "get_lines" /\ ret.res.ok
    => /\ Len(ret.res.val) = Len(ret.arg)
       /\ \A i \in 1..Len(ret.arg) : ret.res.val[i] = ret.arg[i]
       /\ LinesObj(ret.arg) \in Objs

(***************************************************************************)
(* Properties of SpecFrame: a set of lines is requested at once.           *)
(***************************************************************************)
\* a Lines::request whose defaults are as many as its lines
MatchedSetRequest(r) == r.op = "Lines::request" /\ Len(r.arg[3]) = Len(r.arg[1])

\* such a request has issued one handle-request ioctl, whose record names
\* the n lines in order with count n; granted, its handle holds the n
\* lines on one descriptor; refused, there is no handle
OneRequestForAll ==
    MatchedSetRequest(ret)
    => LET n == Len(ret.arg[1])
           req == LinesRequestRecord(ret.arg[1], ret.arg[2], ret.arg[3])
       IN  /\ ret.ioctls = <<"LineHandle">>
           /\ req.lines = n
           /\ \A i \in 1..n : req.lineoffsets[i] = ret.arg[1][i]
           /\ ret.res.ok
                 => /\ Live(ret.slot) /\ handles[ret.slot].lines = ret.arg[1]
                    /\ \A o \in Range(ret.arg[1]) : holder[o] = handles[ret.slot].fd
           /\ ~ret.res.ok => ~Live(ret.slot)

\* a refused Lines::request grants no line, opens no descriptor and builds
\* no handle
RefusedGrantsNothing ==
    \A v \in Objs, f \in FlagInputs, default \in {<<1>>, <<0, 1>>} :
        LinesRequest(v, f, default) /\ ~ret'.res.ok
            => holder' = holder /\ level' = level /\ kfd' = kfd /\ handles' = handles
                  /\ arc' = arc

\* C26: Lines::request with as many defaults as lines issues exactly one
\* handle-request ioctl carrying all n offsets and the count n; it is all
\* or nothing: when it fails no line of the set is left granted by the
\* call and no handle is created.
C26_AllOrNothing == []OneRequestForAll /\ [][RefusedGrantsNothing]_vars

\* a request for two lines, one of them held, was refused: the other line
\* of the set is free
C26_RefusedForOneHeld ==
    /\ MatchedSetRequest(ret) /\ ~ret.res.ok /\ ret.busy
    /\ Len(ret.arg[1]) = 2
    /\ \E o \in Range(ret.arg[1]) : holder[o] = 0
    /\ \E o \in Range(ret.arg[1]) : holder[o] # 0
    /\ ~gone

\* a handle's File wraps a descriptor the kernel granted, which is open;
\* no drop has closed a descriptor that was not
FilesAreGranted ==
    /\ \A h \in HandleSlots :
          Live(h) => /\ handles[h].fd # 0 /\ handles[h].fd \in FdRange
                     /\ kfd[handles[h].fd].open
    /\ ~badClose

\* after a request whose ioctl failed there is no handle in the slot it
\* would have taken, and the error is the ioctl's
NoHandleOnIoctlError ==
    IsRequest(ret) /\ ret.ioctls # <<>> /\ ~ret.res.ok
        => ~Live(ret.slot) /\ ret.res.err.kind = "Ioctl" /\ Len(ret.ioctls) = 1

\* the step of a request whose ioctl fails builds and closes nothing
IoctlErrorBuildsNothing ==
    \A v \in Objs, f \in FlagInputs :
        (\/ LineRequest(v, f, 1)
         \/ \E default \in {<<1>>, <<0, 1>>} : LinesRequest(v, f, default)
         \/ LineEvents(v, f, BOTH_EDGES))
        /\ ~ret'.res.ok /\ ret'.ioctls # <<>>
            => handles' = handles /\ kfd' = kfd /\ badClose' = badClose /\ arc' = arc

\* C27: when the ioctl of Line::request, Lines::request or Line::events
\* fails, the error is returned before a File is built from the request's
\* descriptor field: no handle exists, and the placeholder descriptor 0 is
\* never wrapped and never closed.
C27_NoFileOnIoctlError ==
    /\ []FilesAreGranted
    /\ []NoHandleOnIoctlError
    /\ [][IoctlErrorBuildsNothing]_vars

\* the ioctl of a Line::events failed for a line that is held; the handle
\* holding the line is the only one
C27_EventsRefused ==
    /\ ret.op = "Line::events" /\ ~ret.res.ok /\ ret.ioctls = <<"LineEvent">>
    /\ ret.busy /\ ~gone
    /\ ~Live(ret.slot)
    /\ \E h \in HandleSlots : Live(h) /\ holder[ret.arg[1][1]] = handles[h].fd

(***************************************************************************)
(* Properties of SpecReadErr: the items of the blocking iterator.          *)
(***************************************************************************)
\* the outcome of the read an advance made: it failed (the source was
\* failing), or it returned the size of the chunk at the head of the queue,
\* or 0 bytes from a closed source
ReadFailed(r) == r.arg[5]

ReadSize(r) == IF r.arg[2] > 0 THEN ChunkRead(r).n ELSE 0

\* next returns None exactly when its read succeeded with another size
\* than the record's, an error item exactly when the read failed, and the
\* record otherwise
NextByReadResult ==
    ret.op = "next" /\ Live(ret.slot)
    => /\ ret.res.opt = "none" <=> ~ReadFailed(ret) /\ ReadSize(ret) # EVENT_SIZE
       /\ ~ret.res.ok <=> ReadFailed(ret)
       /\ ~ret.res.ok => ret.res.opt = "some" /\ ret.res.err.errno = "ENODEV"
       /\ ret.res.ok /\ ret.res.opt = "some"
             => ret.res.val = EventAt(handles[ret.slot].fd, ret.arg[1] + 1)

\* on the same descriptor in the same state, get_event returns EIO where
\* next returns None, the read's error where next returns it, and the
\* event where next yields it; both leave the descriptor in the same state
GetEventByReadResult ==
    \A h \in HandleSlots :
        handles[h].kind = "LineEventHandle"
        => LET a == LineEventHandle_next(KState, handles[h])
               b == LineEventHandle_get_event(KState, handles[h])
           IN  /\ a.blocked = b.blocked /\ a.k = b.k
               /\ ~a.blocked
                     => /\ a.res.opt = "none"
                              <=> ~b.res.ok /\ b.res.err.errno = "EIO"
                        /\ ~a.res.ok => ~b.res.ok /\ b.res.err = a.res.err
                        /\ a.res.ok /\ a.res.opt = "some"
                              => b.res.ok /\ b.res.val = a.res.val

\* the iterator is not fused: a next made after a next that returned None
\* reads again, and yields the record it finds
NotFused ==
    \A h \in HandleSlots :
        ret.op = "next" /\ ret.slot = h /\ ret.res.opt = "none" /\ IterNext(h)
            /\ ~kfd[handles[h].fd].fail /\ kfd[handles[h].fd].queue # <<>>
            /\ Head(kfd[handles[h].fd].queue).n = EVENT_SIZE
        => /\ ret'.res.ok /\ ret'.res.opt = "some"
           /\ ret'.res.val.timestamp = Head(kfd[handles[h].fd].queue).ts
           /\ kfd'[handles[h].fd].queue = Tail(kfd[handles[h].fd].queue)

\* C28: Iterator::next on a LineEventHandle returns None exactly when the
\* read succeeds with a byte count other than the record size (0 included)
\* and an error item exactly when the read fails; it is not fused: after
\* None a further next reads again and can yield an event; get_event, on
\* the same read results, returns EIO where next returns None.
C28_NoneOnOtherSize ==
    /\ []NextByReadResult
    /\ []GetEventByReadResult
    /\ [][NotFused]_vars

\* a next that returned None for a short chunk was followed by a next that
\* yielded the record behind it
C28_EventAfterNone ==
    /\ ret.op = "next" /\ ret.res.ok /\ ret.res.opt = "some"
    /\ ret.prev.op = "next" /\ ret.prev.arg[2] > 0 /\ ~ret.prev.arg[5]
    /\ Live(ret.slot)
    /\ kfd[handles[ret.slot].fd].hist[ret.prev.arg[1] + 1].n # EVENT_SIZE
    /\ ret.res.val.timestamp = ret.prev.arg[1] + 2

(***************************************************************************)
(* Properties of SpecEvents: wrapping a handle for tokio.                  *)
(***************************************************************************)
\* the descriptor of an adaptor is open and non-blocking, and the read of
\* a poll_next on it returns at once
AdaptorNeverBlocks ==
    \A h \in HandleSlots :
        handles[h].kind = "AsyncLineEventHandle"
        => /\ kfd[handles[h].fd].open /\ kfd[handles[h].fd].nonblock
           /\ ~KernelRead(KState, handles[h].fd).blocked
           /\ ~read_event(KState, handles[h]).blocked

\* AsyncLineEventHandle::new takes the handle it is given: wrapped, the
\* slot holds the adaptor on the same descriptor and no LineEventHandle is
\* left; refused, the handle is dropped, its descriptor closed and its
\* line released, and a request for the line is granted again
NewConsumes ==
    \A h \in HandleSlots, registered \in BOOLEAN :
        AsyncNew(h, registered)
        => LET fd == handles[h].fd
               o == handles[h].lines[1]
           IN  /\ \A g \in HandleSlots : handles'[g].kind # "LineEventHandle"
               /\ registered
                     => /\ ret'.res.ok
                        /\ handles'[h].kind = "AsyncLineEventHandle" /\ handles'[h].fd = fd
                        /\ kfd'[fd].open /\ kfd'[fd].nonblock /\ holder'[o] = fd
               /\ ~registered
                     => /\ ~ret'.res.ok
                        /\ handles'[h] = NoHandle
                        /\ ~kfd'[fd].open /\ holder'[o] = 0
                        /\ arc' = arc - 1
                        /\ chipFile' = "open"
                              => Line_events(KStateAfter, o, INPUT, BOTH_EDGES).res.ok

\* C29: AsyncLineEventHandle::new consumes the handle: on success the
\* descriptor is non-blocking, so that no later poll_next blocks; on
\* failure the handle is dropped: its descriptor is closed, its line is
\* released and can be requested again.
C29_NewConsumesHandle == []AdaptorNeverBlocks /\ [][NewConsumes]_vars

\* the registration failed: new returned an error, no handle is left, the
\* line is free and a request for it would be granted
C29_RefusedAndReleased ==
    /\ ret.op = "AsyncLineEventHandle::new" /\ ~ret.res.ok
    /\ \A h \in HandleSlots : ~Live(h)
    /\ holder[0] = 0 /\ \A fd \in FdRange : ~kfd[fd].open
    /\ LineObj(0) \in Objs /\ chipFile = "open"
    /\ Line_events(KState, 0, INPUT, BOTH_EDGES).res.ok

(***************************************************************************)
(* Properties of SpecEvents: the value read through an event handle.       *)
(***************************************************************************)
\* get_value on an event handle returns the line's level and leaves the
\* descriptor, its queue and the handle as they were: get_event and next
\* made after it return what they would have returned without it
GetValueKeepsQueue ==
    \A h \in HandleSlots :
        EventGetValue(h)
        => /\ kfd' = kfd /\ holder' = holder /\ level' = level /\ handles' = handles
           /\ ret'.ioctls = <<"GetLine">>
           /\ ret'.res.ok /\ ret'.res.val = level[handles[h].lines[1]]
           /\ LineEventHandle_get_event(KStateAfter, handles'[h])
                 = LineEventHandle_get_event(KState, handles[h])
           /\ LineEventHandle_next(KStateAfter, handles'[h])
                 = LineEventHandle_next(KState, handles[h])

\* the k-th event returned by get_event or next is the k-th record
\* delivered, however many get_value calls were made in between
EventsAsDelivered ==
    ret.op \in {"get_event", "next"} /\ Live(ret.slot)
        /\ ret.res.ok /\ ret.res.opt = "some"
    => /\ ret.arg[2] > 0
       /\ ret.res.val = EventAt(handles[ret.slot].fd, ret.arg[1] + 1)
       /\ Consumed(KState, handles[ret.slot].fd) >= ret.arg[1] + 1

\* C30: LineEventHandle::get_value reads the line's value through the
\* event descriptor without taking anything from the event queue: the
\* events returned by later get_event and next calls are the same as if
\* get_value had not been called, in whatever order the calls are made.
C30_GetValueFrame == [][GetValueKeepsQueue]_vars /\ []EventsAsDelivered

\* get_value was called between two events: one record was read before
\* it, and the record delivered after that one is still queued
C30_ValueBetweenEvents ==
    /\ ret.op = "LineEventHandle::get_value" /\ ret.res.ok
    /\ Live(ret.slot) /\ handles[ret.slot].kind = "LineEventHandle"
    /\ Consumed(KState, handles[ret.slot].fd) = 1
    /\ Len(kfd[handles[ret.slot].fd].queue) = 1
    /\ Head(kfd[handles[ret.slot].fd].queue).n = EVENT_SIZE

=============================================================================
